--------------------------- MODULE BreakerProofs ----------------------------
(***************************************************************************)
(* Proofs about the circuit breaker: the Redis scripts are the in-memory   *)
(* breaker, and the breaker fails fast.                                    *)
(***************************************************************************)
EXTENDS GuardsProofs

\* Most steps are first-order; those that count or expand records cite SMT.
USE Zenon

----------------------------------------------------------------------------
(* The circuits                                                              *)

Circuits ==
    [state : {"closed", "open", "half_open"}, failures : Seq(Nat), opened_at : Nat \cup {NoTime},
     half_open_in_flight : Nat, half_open_successes : Nat, last_seen : Nat]

Sorted(f) == \A i, j \in DOMAIN f : i <= j => f[i] <= f[j]

\* The failures are in the order of their times, only an open circuit has a time of opening, and
\* only a closed one keeps failures.
CircuitOk(c, now) ==
    /\ c \in Circuits
    /\ Sorted(c.failures) /\ \A i \in DOMAIN c.failures : c.failures[i] <= now
    /\ IF c.state = "open" THEN c.opened_at \in Nat ELSE c.opened_at = NoTime
    /\ c.state # "closed" => c.failures = <<>>

CircuitOf(state, failures, opened_at, flying, successes, seen) ==
    [state |-> state, failures |-> failures, opened_at |-> opened_at,
     half_open_in_flight |-> flying, half_open_successes |-> successes, last_seen |-> seen]

LEMMA CircuitFields ==
    ASSUME NEW c \in Circuits
    PROVE  /\ c.state \in {"closed", "open", "half_open"} /\ c.failures \in Seq(Nat)
           /\ c.opened_at \in Nat \cup {NoTime} /\ c.half_open_in_flight \in Nat
           /\ c.half_open_successes \in Nat /\ c.last_seen \in Nat
           /\ c = CircuitOf(c.state, c.failures, c.opened_at, c.half_open_in_flight,
                            c.half_open_successes, c.last_seen)
  BY SMT DEF Circuits, CircuitOf

LEMMA CircuitMade ==
    ASSUME NEW c,
           c = CircuitOf(c.state, c.failures, c.opened_at, c.half_open_in_flight,
                         c.half_open_successes, c.last_seen),
           c.state \in {"closed", "open", "half_open"}, c.failures \in Seq(Nat),
           c.opened_at \in Nat \cup {NoTime}, c.half_open_in_flight \in Nat,
           c.half_open_successes \in Nat, c.last_seen \in Nat
    PROVE  c \in Circuits
  BY DEF Circuits, CircuitOf

\* g is what the window leaves of f: its last entries, those that are recent.
Pruned(g, f, now) ==
    \E a \in 1..Len(f) + 1 :
        /\ g = SubSeq(f, a, Len(f))
        /\ \A i \in DOMAIN f : a <= i <=> f[i] >= now - Window

LEMMA PrunedExists ==
    ASSUME NEW f \in Seq(Nat), Sorted(f), NEW now \in Nat
    PROVE  Pruned(EvictExpired(f, {i \in DOMAIN f : f[i] >= now - Window}), f, now)
<1>. DEFINE fresh == {i \in DOMAIN f : f[i] >= now - Window}
            Suffix(x) == SubSeq(f, x, Len(f))
<1>1. fresh \in SUBSET DOMAIN f
  OBVIOUS
<1>. HIDE DEF Suffix
<1>2. PICK a \in 1..Len(f) + 1 : /\ EvictExpired(f, fresh) = Suffix(a)
                                 /\ \A i \in fresh : a <= i
                                 /\ a <= Len(f) => a \in fresh
  BY <1>1, EvictExpiredFacts DEF Suffix
<1>3. ASSUME NEW i \in DOMAIN f
      PROVE  a <= i <=> f[i] >= now - Window
  <2>1. DOMAIN f = 1..Len(f) /\ Len(f) \in Nat /\ f[i] \in Nat
    BY SMT
  <2>2. ASSUME a <= i PROVE f[i] >= now - Window
    <3>1. a <= Len(f) /\ a \in DOMAIN f
      BY <2>1, <2>2, SMT
    <3>2. f[a] >= now - Window /\ f[a] <= f[i] /\ f[a] \in Nat
      BY <1>2, <2>2, <3>1, SMT DEF Sorted
    <3>3. Window \in Nat
      BY CircuitBreakerSpec
    <3>. QED BY <2>1, <3>2, <3>3, SMT
  <2>3. ASSUME f[i] >= now - Window PROVE a <= i
    BY <1>2, <2>3
  <2>. QED BY <2>2, <2>3
<1>. QED BY <1>2, <1>3 DEF Pruned, Suffix

LEMMA PrunedFacts ==
    ASSUME NEW f \in Seq(Nat), Sorted(f), NEW now \in Nat, \A i \in DOMAIN f : f[i] <= now,
           NEW g, Pruned(g, f, now)
    PROVE  /\ g \in Seq(Nat) /\ Sorted(g) /\ \A i \in DOMAIN g : g[i] <= now
           /\ Len(g) <= Len(f)
           /\ f = <<>> => g = <<>>
<1>1. PICK a \in 1..Len(f) + 1 : g = SubSeq(f, a, Len(f))
  BY DEF Pruned
<1>2. g \in Seq(Nat) /\ Len(g) = Len(f) - a + 1 /\ \A i \in 1..Len(f) - a + 1 : g[i] = f[i + a - 1]
  BY <1>1, SuffixFacts
<1>3. DOMAIN g = 1..Len(f) - a + 1 /\ \A i \in DOMAIN g : i + a - 1 \in DOMAIN f /\ g[i] = f[i + a - 1]
  <2>1. DOMAIN g = 1..Len(g) /\ DOMAIN f = 1..Len(f) /\ Len(f) \in Nat
    BY <1>2, SMT
  <2>2. \A i \in 1..Len(f) - a + 1 : i + a - 1 \in 1..Len(f)
    BY <2>1, SMT
  <2>. QED BY <1>2, <2>1, <2>2
<1>4. ASSUME NEW i \in DOMAIN g, NEW j \in DOMAIN g, i <= j PROVE g[i] <= g[j]
  <2>1. i + a - 1 <= j + a - 1
    BY <1>3, <1>4, SMT
  <2>. QED BY <1>3, <2>1 DEF Sorted
<1>. QED BY <1>2, <1>3, <1>4, SMT DEF Sorted

\* _prune_failures
LEMMA PruneFacts ==
    ASSUME NEW now \in Nat, NEW c, CircuitOk(c, now)
    PROVE  LET p == prune_failures(c, now) IN
           /\ CircuitOk(p, now)
           /\ Pruned(p.failures, c.failures, now)
           /\ p.state = c.state /\ p.opened_at = c.opened_at
           /\ p.half_open_in_flight = c.half_open_in_flight
           /\ p.half_open_successes = c.half_open_successes
<1>. DEFINE p == prune_failures(c, now)
            g == EvictExpired(c.failures, {i \in DOMAIN c.failures : c.failures[i] >= now - Window})
<1>1. /\ c \in Circuits /\ Sorted(c.failures) /\ c.failures \in Seq(Nat)
      /\ \A i \in DOMAIN c.failures : c.failures[i] <= now
  BY CircuitFields DEF CircuitOk
<1>2. p = [c EXCEPT !.failures = g]
  BY DEF prune_failures
<1>. DEFINE f == c.failures
<1>3. Pruned(g, f, now)
  <2>. HIDE DEF f
  <2>1. Pruned(EvictExpired(f, {i \in DOMAIN f : f[i] >= now - Window}), f, now)
    BY <1>1, PrunedExists DEF f
  <2>. QED BY <2>1 DEF f
<1>4. /\ g \in Seq(Nat) /\ Sorted(g) /\ (\A i \in DOMAIN g : g[i] <= now)
      /\ c.failures = <<>> => g = <<>>
  <2>. HIDE DEF f, g
  <2>. QED BY <1>1, <1>3, PrunedFacts, SMT DEF f
<1>. HIDE DEF g, p
<1>5. /\ p \in Circuits /\ p.failures = g
      /\ p.state = c.state /\ p.opened_at = c.opened_at
      /\ p.half_open_in_flight = c.half_open_in_flight
      /\ p.half_open_successes = c.half_open_successes
  <2>1. g \in Seq(Nat)
    BY <1>4
  <2>2. p = CircuitOf(c.state, g, c.opened_at, c.half_open_in_flight, c.half_open_successes, c.last_seen)
    BY <1>1, <1>2, CircuitFields, SMT DEF CircuitOf
  <2>3. /\ p.state = c.state /\ p.failures = g /\ p.opened_at = c.opened_at
        /\ p.half_open_in_flight = c.half_open_in_flight
        /\ p.half_open_successes = c.half_open_successes /\ p.last_seen = c.last_seen
        /\ p = CircuitOf(p.state, p.failures, p.opened_at, p.half_open_in_flight,
                         p.half_open_successes, p.last_seen)
    BY <2>2, SMT DEF CircuitOf
  <2>. QED BY <1>1, <2>1, <2>3, CircuitFields, CircuitMade
<1>. QED BY <1>3, <1>4, <1>5 DEF CircuitOk, p

LEMMA NoFailures == <<>> \in Seq(Nat) /\ Sorted(<<>>) /\ \A now : \A i \in DOMAIN <<>> : <<>>[i] <= now
  BY SMT DEF Sorted

LEMMA NewCircuitOk == ASSUME NEW now \in Nat PROVE CircuitOk(NewCircuit(now), now)
<1>. DEFINE x == NewCircuit(now)
<1>1. x = CircuitOf("closed", <<>>, NoTime, 0, 0, now)
  BY DEF NewCircuit, CircuitOf
<1>. HIDE DEF x
<1>2. /\ x.state = "closed" /\ x.failures = <<>> /\ x.opened_at = NoTime
      /\ x.half_open_in_flight = 0 /\ x.half_open_successes = 0 /\ x.last_seen = now
      /\ x = CircuitOf(x.state, x.failures, x.opened_at, x.half_open_in_flight,
                       x.half_open_successes, x.last_seen)
  BY <1>1, SMT DEF CircuitOf
<1>3. 0 \in Nat
  BY SMT
<1>4. x \in Circuits
  BY <1>2, <1>3, NoFailures, CircuitMade
<1>. QED BY <1>2, <1>4, NoFailures DEF CircuitOk, x

\* _open, _half_open and _close
LEMMA ResetFacts ==
    ASSUME NEW now \in Nat, NEW c, CircuitOk(c, now), NEW s, NEW o,
           \/ s = "open" /\ o \in Nat
           \/ s \in {"closed", "half_open"} /\ o = NoTime
    PROVE  LET x == Reset(c, s, o) IN
           /\ CircuitOk(x, now)
           /\ x.state = s /\ x.failures = <<>> /\ x.opened_at = o
           /\ x.half_open_in_flight = 0 /\ x.half_open_successes = 0
<1>. DEFINE x == Reset(c, s, o)
<1>1. c \in Circuits /\ c.last_seen \in Nat
  BY CircuitFields DEF CircuitOk
<1>2. x = CircuitOf(s, <<>>, o, 0, 0, c.last_seen)
  BY DEF CircuitOf, Reset
<1>. HIDE DEF x
<1>3. /\ x.state = s /\ x.failures = <<>> /\ x.opened_at = o
      /\ x.half_open_in_flight = 0 /\ x.half_open_successes = 0 /\ x.last_seen = c.last_seen
      /\ x = CircuitOf(x.state, x.failures, x.opened_at, x.half_open_in_flight,
                       x.half_open_successes, x.last_seen)
  BY <1>2, SMT DEF CircuitOf
<1>4. 0 \in Nat /\ "open" # "closed" /\ "open" # "half_open"
  BY SMT
<1>5. x \in Circuits
  BY <1>1, <1>3, <1>4, NoFailures, CircuitMade
<1>. QED BY <1>3, <1>4, <1>5, NoFailures DEF CircuitOk, x

LEMMA OpenFacts ==
    ASSUME NEW now \in Nat, NEW c, CircuitOk(c, now)
    PROVE  LET x == open(c, now) IN
           /\ CircuitOk(x, now)
           /\ x.state = "open" /\ x.failures = <<>> /\ x.opened_at = now
           /\ x.half_open_in_flight = 0 /\ x.half_open_successes = 0
<1>1. LET x == Reset(c, "open", now) IN
      /\ CircuitOk(x, now)
      /\ x.state = "open" /\ x.failures = <<>> /\ x.opened_at = now
      /\ x.half_open_in_flight = 0 /\ x.half_open_successes = 0
  BY ResetFacts, SMT
<1>. QED BY <1>1 DEF open

LEMMA HalfOpenFacts ==
    ASSUME NEW now \in Nat, NEW c, CircuitOk(c, now)
    PROVE  LET x == half_open(c) IN
           /\ CircuitOk(x, now)
           /\ x.state = "half_open" /\ x.failures = <<>> /\ x.opened_at = NoTime
           /\ x.half_open_in_flight = 0 /\ x.half_open_successes = 0
<1>1. LET x == Reset(c, "half_open", NoTime) IN
      /\ CircuitOk(x, now)
      /\ x.state = "half_open" /\ x.failures = <<>> /\ x.opened_at = NoTime
      /\ x.half_open_in_flight = 0 /\ x.half_open_successes = 0
  BY ResetFacts, SMT
<1>. QED BY <1>1 DEF half_open

LEMMA CloseFacts ==
    ASSUME NEW now \in Nat, NEW c, CircuitOk(c, now)
    PROVE  LET x == close(c) IN
           /\ CircuitOk(x, now)
           /\ x.state = "closed" /\ x.failures = <<>> /\ x.opened_at = NoTime
           /\ x.half_open_in_flight = 0 /\ x.half_open_successes = 0
<1>1. LET x == Reset(c, "closed", NoTime) IN
      /\ CircuitOk(x, now)
      /\ x.state = "closed" /\ x.failures = <<>> /\ x.opened_at = NoTime
      /\ x.half_open_in_flight = 0 /\ x.half_open_successes = 0
  BY ResetFacts, SMT
<1>. QED BY <1>1 DEF close

\* The probes of a circuit change and nothing else.
LEMMA ProbesFacts ==
    ASSUME NEW now \in Nat, NEW c, CircuitOk(c, now), NEW x,
           x = CircuitOf(x.state, x.failures, x.opened_at, x.half_open_in_flight,
                         x.half_open_successes, x.last_seen),
           x.state = c.state, x.failures = c.failures, x.opened_at = c.opened_at,
           x.half_open_in_flight \in Nat, x.half_open_successes \in Nat, x.last_seen = c.last_seen
    PROVE  CircuitOk(x, now)
<1>1. c \in Circuits
  BY DEF CircuitOk
<1>2. x \in Circuits
  BY <1>1, CircuitFields, CircuitMade
<1>. QED BY <1>2 DEF CircuitOk

LEMMA PermitLimit == half_open_permit_limit \in Nat /\ half_open_permit_limit > 0
  BY CircuitBreakerSpec, SMT DEF half_open_permit_limit

LEMMA TakePermitFacts ==
    ASSUME NEW now \in Nat, NEW c, CircuitOk(c, now)
    PROVE  LET a == TakePermit(c)
               full == c.half_open_in_flight >= half_open_permit_limit
           IN
           /\ CircuitOk(a.circuit, now)
           /\ a.circuit.state = c.state /\ a.circuit.failures = c.failures
           /\ a.circuit.opened_at = c.opened_at /\ a.circuit.half_open_successes = c.half_open_successes
           /\ a.circuit.half_open_in_flight = IF full THEN c.half_open_in_flight ELSE c.half_open_in_flight + 1
           /\ full => a.decision = Decision(FALSE, "half_open", 0)
           /\ ~full => a.decision = Decision(TRUE, "half_open", NoTime)
<1>. DEFINE a == TakePermit(c)
            x == [c EXCEPT !.half_open_in_flight = @ + 1]
            n == c.half_open_in_flight
<1>1. CASE n >= half_open_permit_limit
  <2>1. a.circuit = c /\ a.decision = Decision(FALSE, "half_open", 0)
    BY <1>1 DEF TakePermit
  <2>. HIDE DEF a
  <2>. QED BY <1>1, <2>1 DEF a
<1>2. CASE ~(n >= half_open_permit_limit)
  <2>1. a = [circuit |-> x, decision |-> Decision(TRUE, "half_open", NoTime)]
    BY <1>2 DEF TakePermit
  <2>2. c \in Circuits /\ n \in Nat /\ n + 1 \in Nat /\ c.half_open_successes \in Nat
    <3>1. c \in Circuits /\ n \in Nat /\ c.half_open_successes \in Nat
      BY CircuitFields DEF CircuitOk
    <3>. QED BY <3>1, SMT
  <2>3. x = CircuitOf(c.state, c.failures, c.opened_at, n + 1, c.half_open_successes, c.last_seen)
    BY <2>2, CircuitFields, SMT DEF CircuitOf
  <2>. HIDE DEF a, x
  <2>4. /\ CircuitOk(x, now)
        /\ x.state = c.state /\ x.failures = c.failures /\ x.opened_at = c.opened_at
        /\ x.half_open_in_flight = n + 1 /\ x.half_open_successes = c.half_open_successes
    <3>1. /\ x.state = c.state /\ x.failures = c.failures /\ x.opened_at = c.opened_at
          /\ x.half_open_in_flight = n + 1 /\ x.half_open_successes = c.half_open_successes
          /\ x.last_seen = c.last_seen
          /\ x = CircuitOf(x.state, x.failures, x.opened_at, x.half_open_in_flight,
                           x.half_open_successes, x.last_seen)
      BY <2>3, SMT DEF CircuitOf
    <3>2. x.half_open_in_flight \in Nat /\ x.half_open_successes \in Nat
      BY <2>2, <3>1
    <3>. QED BY <3>1, <3>2, ProbesFacts, SMT
  <2>5. a.circuit = x /\ a.decision = Decision(TRUE, "half_open", NoTime)
    BY <2>1
  <2>. QED BY <1>2, <2>4, <2>5 DEF a
<1>. QED BY <1>1, <1>2

LEMMA AllowFacts ==
    ASSUME NEW now \in Nat, NEW c, CircuitOk(c, now)
    PROVE  LET p == prune_failures(c, now)
               remaining == c.opened_at + OpenCooldown - now
               a == allow_call(c, now)
           IN
           /\ c.state = "open" /\ remaining > 0 =>
                a.circuit = p /\ a.decision = Decision(FALSE, "open", remaining)
           /\ c.state = "open" /\ ~(remaining > 0) => remaining <= 0 /\ a = TakePermit(half_open(p))
           /\ c.state = "half_open" => a = TakePermit(p)
           /\ c.state = "closed" /\ Len(p.failures) >= FailureThreshold =>
                a.circuit = open(p, now) /\ a.decision = Decision(FALSE, "open", OpenCooldown)
           /\ c.state = "closed" /\ ~(Len(p.failures) >= FailureThreshold) =>
                a.circuit = p /\ a.decision = Decision(TRUE, "closed", NoTime)
<1>. DEFINE p == prune_failures(c, now)
            remaining == p.opened_at + OpenCooldown - now
            a == allow_call(c, now)
            Answers(x, y) == [circuit |-> x, decision |-> y]
<1>1. p.state = c.state /\ p.opened_at = c.opened_at
  BY PruneFacts
<1>2. a = CASE p.state = "open" /\ remaining > 0 -> Answers(p, Decision(FALSE, "open", remaining))
            [] p.state = "open" /\ remaining <= 0 -> TakePermit(half_open(p))
            [] p.state = "half_open" -> TakePermit(p)
            [] p.state = "closed" /\ Len(p.failures) >= FailureThreshold ->
                 Answers(open(p, now), Decision(FALSE, "open", OpenCooldown))
            [] OTHER -> Answers(p, Decision(TRUE, "closed", NoTime))
  BY DEF allow_call
<1>3. \A x, y : Answers(x, y).circuit = x /\ Answers(x, y).decision = y
  OBVIOUS
<1>. HIDE DEF Answers
<1>4. CASE c.state = "open"
  <2>1. p.opened_at \in Nat /\ OpenCooldown \in Nat
    BY <1>1, <1>4, CircuitBreakerSpec DEF CircuitOk
  <2>2. (remaining > 0) <=> ~(remaining <= 0)
    BY <2>1, SMT
  <2>. HIDE DEF p, a
  <2>3. remaining > 0 => a = Answers(p, Decision(FALSE, "open", remaining))
    BY <1>1, <1>2, <1>4, <2>2
  <2>4. ~(remaining > 0) => a = TakePermit(half_open(p))
    BY <1>1, <1>2, <1>4, <2>2
  <2>5. remaining > 0 => a.circuit = p /\ a.decision = Decision(FALSE, "open", remaining)
    BY <1>3, <2>3
  <2>6. remaining = c.opened_at + OpenCooldown - now
    BY <1>1
  <2>. HIDE DEF remaining
  <2>. QED BY <1>4, <2>2, <2>4, <2>5, <2>6 DEF p, a
<1>5. CASE c.state = "half_open"
  <2>. HIDE DEF p, a
  <2>. QED BY <1>1, <1>2, <1>5 DEF p, a
<1>6. CASE c.state = "closed"
  <2>. HIDE DEF p, a
  <2>1. Len(p.failures) >= FailureThreshold => a = Answers(open(p, now), Decision(FALSE, "open", OpenCooldown))
    BY <1>1, <1>2, <1>6
  <2>2. ~(Len(p.failures) >= FailureThreshold) => a = Answers(p, Decision(TRUE, "closed", NoTime))
    BY <1>1, <1>2, <1>6
  <2>3. Len(p.failures) >= FailureThreshold =>
          a.circuit = open(p, now) /\ a.decision = Decision(FALSE, "open", OpenCooldown)
    BY <1>3, <2>1
  <2>4. ~(Len(p.failures) >= FailureThreshold) => a.circuit = p /\ a.decision = Decision(TRUE, "closed", NoTime)
    BY <1>3, <2>2
  <2>. QED BY <1>6, <2>3, <2>4 DEF p, a
<1>7. c.state \in {"closed", "open", "half_open"}
  BY CircuitFields DEF CircuitOk
<1>. QED BY <1>4, <1>5, <1>6, <1>7

LEMMA AllowOk ==
    ASSUME NEW now \in Nat, NEW c, CircuitOk(c, now)
    PROVE  CircuitOk(allow_call(c, now).circuit, now)
<1>. DEFINE p == prune_failures(c, now)
            a == allow_call(c, now)
            remaining == c.opened_at + OpenCooldown - now
<1>1. CircuitOk(p, now)
  BY PruneFacts
<1>2. CircuitOk(half_open(p), now) /\ CircuitOk(open(p, now), now)
  <2>. HIDE DEF p
  <2>1. CircuitOk(half_open(p), now)
    BY <1>1, HalfOpenFacts
  <2>2. CircuitOk(open(p, now), now)
    BY <1>1, OpenFacts
  <2>. QED BY <2>1, <2>2
<1>3. \/ a.circuit = p \/ a.circuit = open(p, now) \/ a = TakePermit(p) \/ a = TakePermit(half_open(p))
  <2>1. c.state \in {"closed", "open", "half_open"}
    BY CircuitFields DEF CircuitOk
  <2>2. CASE c.state = "open"
    BY <2>2, AllowFacts
  <2>3. CASE c.state = "half_open"
    BY <2>3, AllowFacts
  <2>4. CASE c.state = "closed"
    BY <2>4, AllowFacts
  <2>. QED BY <2>1, <2>2, <2>3, <2>4
<1>4. CircuitOk(TakePermit(p).circuit, now) /\ CircuitOk(TakePermit(half_open(p)).circuit, now)
  BY <1>1, <1>2, TakePermitFacts
<1>. HIDE DEF p, a
<1>5. CircuitOk(a.circuit, now)
  BY <1>1, <1>2, <1>3, <1>4
<1>. QED BY <1>5 DEF a

\* A probe that succeeded is counted.
LEMMA ProbeBack ==
    ASSUME NEW now \in Nat, NEW c, CircuitOk(c, now)
    PROVE  LET landed == [c EXCEPT !.half_open_in_flight = IF @ > 0 THEN @ - 1 ELSE @]
               x == [landed EXCEPT !.half_open_successes = @ + 1]
           IN
           /\ CircuitOk(x, now)
           /\ x.state = c.state /\ x.failures = c.failures /\ x.opened_at = c.opened_at
           /\ x.half_open_in_flight
                = IF c.half_open_in_flight > 0 THEN c.half_open_in_flight - 1 ELSE c.half_open_in_flight
           /\ x.half_open_successes = c.half_open_successes + 1
<1>. DEFINE n == IF c.half_open_in_flight > 0 THEN c.half_open_in_flight - 1 ELSE c.half_open_in_flight
            u == c.half_open_successes + 1
            landed == [c EXCEPT !.half_open_in_flight = n]
            x == [landed EXCEPT !.half_open_successes = u]
<1>1. c \in Circuits /\ c.half_open_in_flight \in Nat /\ c.half_open_successes \in Nat
  BY CircuitFields DEF CircuitOk
<1>2. n \in Nat /\ u \in Nat
  BY <1>1, SMT
<1>. HIDE DEF n, u
<1>3. landed = CircuitOf(c.state, c.failures, c.opened_at, n, c.half_open_successes, c.last_seen)
  BY <1>1, CircuitFields, SMT DEF CircuitOf
<1>4. landed.half_open_successes = c.half_open_successes
  BY <1>3, SMT DEF CircuitOf
<1>. HIDE DEF landed
<1>5. x = CircuitOf(c.state, c.failures, c.opened_at, n, u, c.last_seen)
  BY <1>3, SMT DEF CircuitOf
<1>. HIDE DEF x
<1>6. /\ x.state = c.state /\ x.failures = c.failures /\ x.opened_at = c.opened_at
      /\ x.half_open_in_flight = n /\ x.half_open_successes = u /\ x.last_seen = c.last_seen
      /\ x = CircuitOf(x.state, x.failures, x.opened_at, x.half_open_in_flight,
                       x.half_open_successes, x.last_seen)
  BY <1>5, SMT DEF CircuitOf
<1>7. CircuitOk(x, now)
  BY <1>2, <1>6, ProbesFacts, SMT
<1>8. [landed EXCEPT !.half_open_successes = @ + 1] = x
  BY <1>4 DEF x, u
<1>. QED BY <1>6, <1>7, <1>8 DEF n, u, landed

\* A late failure moves the time of opening of an open circuit.
LEMMA ReopenFacts ==
    ASSUME NEW now \in Nat, NEW c, CircuitOk(c, now), c.state = "open"
    PROVE  LET x == [c EXCEPT !.opened_at = now] IN
           /\ CircuitOk(x, now)
           /\ x.state = "open" /\ x.failures = <<>> /\ x.opened_at = now
           /\ x.half_open_in_flight = c.half_open_in_flight
           /\ x.half_open_successes = c.half_open_successes
<1>. DEFINE x == [c EXCEPT !.opened_at = now]
<1>1. c \in Circuits /\ c.failures = <<>>
  BY DEF CircuitOk
<1>2. x = CircuitOf(c.state, c.failures, now, c.half_open_in_flight, c.half_open_successes, c.last_seen)
  BY <1>1, CircuitFields, SMT DEF CircuitOf
<1>. HIDE DEF x
<1>3. /\ x.state = "open" /\ x.failures = <<>> /\ x.opened_at = now
      /\ x.half_open_in_flight = c.half_open_in_flight /\ x.half_open_successes = c.half_open_successes
      /\ x.last_seen = c.last_seen
      /\ x = CircuitOf(x.state, x.failures, x.opened_at, x.half_open_in_flight,
                       x.half_open_successes, x.last_seen)
  BY <1>1, <1>2, SMT DEF CircuitOf
<1>4. x \in Circuits
  BY <1>1, <1>3, CircuitFields, NoFailures, CircuitMade
<1>. QED BY <1>3, <1>4, NoFailures DEF CircuitOk, x

\* One more failure, now.
LEMMA FailureFacts ==
    ASSUME NEW now \in Nat, NEW c, CircuitOk(c, now), c.state = "closed"
    PROVE  LET x == [c EXCEPT !.failures = Append(@, now)] IN
           /\ CircuitOk(x, now)
           /\ x.state = "closed" /\ x.failures = Append(c.failures, now) /\ x.opened_at = NoTime
           /\ x.half_open_in_flight = c.half_open_in_flight
           /\ x.half_open_successes = c.half_open_successes
<1>. DEFINE f == c.failures
            g == Append(f, now)
            x == [c EXCEPT !.failures = g]
<1>1. /\ c \in Circuits /\ f \in Seq(Nat) /\ Sorted(f) /\ (\A i \in DOMAIN f : f[i] <= now)
      /\ c.opened_at = NoTime
  BY CircuitFields DEF CircuitOk
<1>. HIDE DEF f
<1>2. /\ g \in Seq(Nat) /\ DOMAIN g = 1..Len(f) + 1 /\ DOMAIN f = 1..Len(f) /\ Len(f) \in Nat
      /\ \A i \in 1..Len(f) : g[i] = f[i]
      /\ g[Len(f) + 1] = now
  BY <1>1, SMT
<1>. HIDE DEF g
<1>3. \A i \in DOMAIN g : (i \in DOMAIN f /\ g[i] = f[i]) \/ (i = Len(f) + 1 /\ g[i] = now)
  BY <1>2, SMT
<1>4. now <= now /\ \A i \in DOMAIN f : ~(Len(f) + 1 <= i)
  BY <1>2, SMT
<1>5. Sorted(g) /\ \A i \in DOMAIN g : g[i] <= now
  <2>1. ASSUME NEW i \in DOMAIN g PROVE g[i] <= now
    BY <1>1, <1>3, <1>4
  <2>2. ASSUME NEW i \in DOMAIN g, NEW j \in DOMAIN g, i <= j PROVE g[i] <= g[j]
    <3>1. CASE j = Len(f) + 1
      BY <1>2, <2>1, <3>1
    <3>2. CASE j \in DOMAIN f
      <4>1. i \in DOMAIN f
        BY <1>3, <1>4, <2>2, <3>2
      <4>. QED BY <1>1, <1>2, <2>2, <3>2, <4>1 DEF Sorted
    <3>. QED BY <1>3, <3>1, <3>2
  <2>. QED BY <2>1, <2>2 DEF Sorted
<1>6. x = CircuitOf(c.state, g, c.opened_at, c.half_open_in_flight, c.half_open_successes, c.last_seen)
  BY <1>1, CircuitFields, SMT DEF CircuitOf
<1>. HIDE DEF x
<1>7. /\ x.state = "closed" /\ x.failures = g /\ x.opened_at = NoTime
      /\ x.half_open_in_flight = c.half_open_in_flight /\ x.half_open_successes = c.half_open_successes
      /\ x.last_seen = c.last_seen
      /\ x = CircuitOf(x.state, x.failures, x.opened_at, x.half_open_in_flight,
                       x.half_open_successes, x.last_seen)
  BY <1>1, <1>6, SMT DEF CircuitOf
<1>8. x \in Circuits
  BY <1>1, <1>2, <1>7, CircuitFields, CircuitMade
<1>. QED BY <1>5, <1>7, <1>8 DEF CircuitOk, x, g, f

\* The closed circuit p after one more failure, and before it opens.
Failing(p, now) == prune_failures([p EXCEPT !.failures = Append(@, now)], now)

LEMMA FailingFacts ==
    ASSUME NEW now \in Nat, NEW p, CircuitOk(p, now), p.state = "closed"
    PROVE  LET q == Failing(p, now) IN
           /\ CircuitOk(q, now) /\ q.state = "closed" /\ q.opened_at = NoTime
           /\ Pruned(q.failures, Append(p.failures, now), now)
           /\ q.half_open_in_flight = p.half_open_in_flight
           /\ q.half_open_successes = p.half_open_successes
<1>. DEFINE x == [p EXCEPT !.failures = Append(@, now)]
<1>1. /\ CircuitOk(x, now)
      /\ x.state = "closed" /\ x.failures = Append(p.failures, now) /\ x.opened_at = NoTime
      /\ x.half_open_in_flight = p.half_open_in_flight
      /\ x.half_open_successes = p.half_open_successes
  BY FailureFacts
<1>. HIDE DEF x
<1>2. LET q == prune_failures(x, now) IN
      /\ CircuitOk(q, now)
      /\ Pruned(q.failures, x.failures, now)
      /\ q.state = x.state /\ q.opened_at = x.opened_at
      /\ q.half_open_in_flight = x.half_open_in_flight
      /\ q.half_open_successes = x.half_open_successes
  BY <1>1, PruneFacts
<1>3. Failing(p, now) = prune_failures(x, now)
  BY DEF Failing, x
<1>. QED BY <1>1, <1>2, <1>3

\* A failure landing on an open circuit restarts its delay; a success that does not close a
\* half-open one is counted.
LEMMA RecordReopened ==
    ASSUME NEW now \in Nat, NEW c, CircuitOk(c, now), NEW ok \in BOOLEAN, ~ok, c.state = "open"
    PROVE  LET r == record_result(c, ok, now) IN
           /\ CircuitOk(r, now)
           /\ r.state = "open" /\ r.failures = <<>> /\ r.opened_at = now
           /\ r.half_open_in_flight = c.half_open_in_flight
           /\ r.half_open_successes = c.half_open_successes
<1>. DEFINE p == prune_failures(c, now)
            r == record_result(c, ok, now)
            x == [p EXCEPT !.opened_at = now]
<1>1. /\ CircuitOk(p, now) /\ p.state = "open"
      /\ p.half_open_in_flight = c.half_open_in_flight
      /\ p.half_open_successes = c.half_open_successes
  BY PruneFacts
<1>2. r = CASE p.state = "half_open" -> RecordHalfOpen(p, ok, now)
            [] p.state = "open" -> IF ok THEN p ELSE [p EXCEPT !.opened_at = now]
            [] p.state = "closed" -> RecordClosed(p, ok, now)
  BY DEF record_result
<1>. HIDE DEF p, r
<1>3. r = x
  BY <1>1, <1>2
<1>4. /\ CircuitOk(x, now)
      /\ x.state = "open" /\ x.failures = <<>> /\ x.opened_at = now
      /\ x.half_open_in_flight = p.half_open_in_flight
      /\ x.half_open_successes = p.half_open_successes
  BY <1>1, ReopenFacts
<1>. HIDE DEF x
<1>. QED BY <1>1, <1>3, <1>4 DEF r

LEMMA RecordCounted ==
    ASSUME NEW now \in Nat, NEW c, CircuitOk(c, now), NEW ok \in BOOLEAN, ok,
           c.state = "half_open", ~(c.half_open_successes + 1 >= SuccessThreshold)
    PROVE  LET r == record_result(c, ok, now)
               n == c.half_open_in_flight
           IN
           /\ CircuitOk(r, now)
           /\ r.state = "half_open" /\ r.failures = prune_failures(c, now).failures
           /\ r.opened_at = NoTime
           /\ r.half_open_in_flight = (IF n > 0 THEN n - 1 ELSE n)
           /\ r.half_open_successes = c.half_open_successes + 1
<1>. DEFINE p == prune_failures(c, now)
            r == record_result(c, ok, now)
            n == c.half_open_in_flight
            u == c.half_open_successes
            landed == [p EXCEPT !.half_open_in_flight = IF @ > 0 THEN @ - 1 ELSE @]
            x == [landed EXCEPT !.half_open_successes = @ + 1]
<1>1. /\ CircuitOk(p, now) /\ p.state = "half_open" /\ p.opened_at = c.opened_at
      /\ p.half_open_in_flight = n /\ p.half_open_successes = u
  BY PruneFacts
<1>2. r = CASE p.state = "half_open" -> RecordHalfOpen(p, ok, now)
            [] p.state = "open" -> IF ok THEN p ELSE [p EXCEPT !.opened_at = now]
            [] p.state = "closed" -> RecordClosed(p, ok, now)
  BY DEF record_result
<1>. HIDE DEF p, r
<1>3. r = RecordHalfOpen(p, ok, now)
  BY <1>1, <1>2
<1>4. /\ CircuitOk(x, now)
      /\ x.state = "half_open" /\ x.failures = p.failures /\ x.opened_at = p.opened_at
      /\ x.half_open_in_flight = IF n > 0 THEN n - 1 ELSE n
      /\ x.half_open_successes = u + 1
  <2>1. /\ CircuitOk(x, now)
        /\ x.state = p.state /\ x.failures = p.failures /\ x.opened_at = p.opened_at
        /\ x.half_open_in_flight
             = IF p.half_open_in_flight > 0 THEN p.half_open_in_flight - 1 ELSE p.half_open_in_flight
        /\ x.half_open_successes = p.half_open_successes + 1
    BY <1>1, ProbeBack
  <2>. HIDE DEF x
  <2>. QED BY <1>1, <2>1
<1>5. r = CASE ~ok -> open(p, now)
            [] ok /\ x.half_open_successes >= SuccessThreshold -> close(x)
            [] OTHER -> x
  BY <1>3 DEF RecordHalfOpen
<1>. HIDE DEF x
<1>8. ~(x.half_open_successes >= SuccessThreshold)
  BY <1>4
<1>6. r = x
  BY <1>5, <1>8
<1>7. p.opened_at = NoTime
  BY <1>1 DEF CircuitOk
<1>. QED BY <1>4, <1>6, <1>7 DEF p, r

LEMMA RecordFacts ==
    ASSUME NEW now \in Nat, NEW c, CircuitOk(c, now), NEW ok \in BOOLEAN
    PROVE  LET p == prune_failures(c, now)
               r == record_result(c, ok, now)
               n == c.half_open_in_flight
               u == c.half_open_successes
           IN
           /\ CircuitOk(r, now)
           /\ c.state = "half_open" /\ ~ok => r = open(p, now)
           /\ c.state = "half_open" /\ ok /\ u + 1 >= SuccessThreshold =>
                /\ r.state = "closed" /\ r.failures = <<>> /\ r.opened_at = NoTime
                /\ r.half_open_in_flight = 0 /\ r.half_open_successes = 0
           /\ c.state = "half_open" /\ ok /\ ~(u + 1 >= SuccessThreshold) =>
                /\ r.state = "half_open" /\ r.failures = p.failures /\ r.opened_at = NoTime
                /\ r.half_open_in_flight = (IF n > 0 THEN n - 1 ELSE n) /\ r.half_open_successes = u + 1
           /\ c.state = "open" /\ ok => r = p
           /\ c.state = "open" /\ ~ok =>
                /\ r.state = "open" /\ r.failures = <<>> /\ r.opened_at = now
                /\ r.half_open_in_flight = n /\ r.half_open_successes = u
           /\ c.state = "closed" /\ ok => r = p
           /\ c.state = "closed" /\ ~ok /\ Len(Failing(p, now).failures) >= FailureThreshold =>
                r = open(Failing(p, now), now)
           /\ c.state = "closed" /\ ~ok /\ ~(Len(Failing(p, now).failures) >= FailureThreshold) =>
                r = Failing(p, now)
<1>. DEFINE p == prune_failures(c, now)
            r == record_result(c, ok, now)
            n == c.half_open_in_flight
            u == c.half_open_successes
<1>1. /\ CircuitOk(p, now) /\ p.state = c.state /\ p.opened_at = c.opened_at
      /\ p.half_open_in_flight = n /\ p.half_open_successes = u
  BY PruneFacts
<1>2. r = CASE p.state = "half_open" -> RecordHalfOpen(p, ok, now)
            [] p.state = "open" -> IF ok THEN p ELSE [p EXCEPT !.opened_at = now]
            [] p.state = "closed" -> RecordClosed(p, ok, now)
  BY DEF record_result
<1>. HIDE DEF p, r
<1>3. CASE c.state = "half_open"
  <2>. DEFINE landed == [p EXCEPT !.half_open_in_flight = IF @ > 0 THEN @ - 1 ELSE @]
              x == [landed EXCEPT !.half_open_successes = @ + 1]
  <2>1. r = RecordHalfOpen(p, ok, now)
    BY <1>1, <1>2, <1>3
  <2>2. /\ CircuitOk(x, now)
        /\ x.state = "half_open" /\ x.failures = p.failures /\ x.opened_at = p.opened_at
        /\ x.half_open_in_flight = IF n > 0 THEN n - 1 ELSE n
        /\ x.half_open_successes = u + 1
    BY <1>1, <1>3, ProbeBack
  <2>3. r = CASE ~ok -> open(p, now)
              [] ok /\ x.half_open_successes >= SuccessThreshold -> close(x)
              [] OTHER -> x
    BY <2>1 DEF RecordHalfOpen
  <2>. HIDE DEF x
  <2>4. CASE ~ok
    <3>1. r = open(p, now)
      BY <2>3, <2>4
    <3>2. CircuitOk(open(p, now), now)
      BY <1>1, OpenFacts
    <3>. QED BY <1>3, <2>4, <3>1, <3>2 DEF p, r
  <2>5. CASE ok /\ u + 1 >= SuccessThreshold
    <3>1. r = close(x)
      BY <2>2, <2>3, <2>5
    <3>2. /\ CircuitOk(close(x), now)
          /\ close(x).state = "closed" /\ close(x).failures = <<>> /\ close(x).opened_at = NoTime
          /\ close(x).half_open_in_flight = 0 /\ close(x).half_open_successes = 0
      BY <2>2, CloseFacts
    <3>. QED BY <1>3, <2>5, <3>1, <3>2 DEF p, r
  <2>6. CASE ok /\ ~(u + 1 >= SuccessThreshold)
    <3>1. /\ CircuitOk(r, now)
          /\ r.state = "half_open" /\ r.failures = p.failures /\ r.opened_at = NoTime
          /\ r.half_open_in_flight = (IF n > 0 THEN n - 1 ELSE n) /\ r.half_open_successes = u + 1
      BY <1>3, <2>6, RecordCounted DEF p, r
    <3>. QED BY <1>3, <2>6, <3>1 DEF p, r
  <2>. QED BY <2>4, <2>5, <2>6
<1>4. CASE c.state = "open"
  <2>1. r = IF ok THEN p ELSE [p EXCEPT !.opened_at = now]
    BY <1>1, <1>2, <1>4
  <2>3. CASE ok
    BY <1>1, <1>4, <2>1, <2>3 DEF p, r
  <2>4. CASE ~ok
    <3>1. /\ CircuitOk(r, now)
          /\ r.state = "open" /\ r.failures = <<>> /\ r.opened_at = now
          /\ r.half_open_in_flight = n /\ r.half_open_successes = u
      BY <1>4, <2>4, RecordReopened DEF r
    <3>. QED BY <1>4, <2>4, <3>1 DEF p, r
  <2>. QED BY <2>3, <2>4
<1>5. CASE c.state = "closed"
  <2>. DEFINE q == Failing(p, now)
  <2>1. r = CASE ok -> p
              [] ~ok /\ Len(q.failures) >= FailureThreshold -> open(q, now)
              [] OTHER -> q
    <3>1. r = RecordClosed(p, ok, now)
      BY <1>1, <1>2, <1>5
    <3>. QED BY <3>1 DEF RecordClosed, Failing
  <2>2. CircuitOk(q, now)
    BY <1>1, <1>5, FailingFacts
  <2>3. CircuitOk(open(q, now), now)
    <3>. HIDE DEF q
    <3>. QED BY <2>2, OpenFacts
  <2>. HIDE DEF q
  <2>4. CASE ok
    <3>1. r = p
      BY <2>1, <2>4
    <3>. QED BY <1>1, <1>5, <2>4, <3>1 DEF p, r
  <2>5. CASE ~ok /\ Len(q.failures) >= FailureThreshold
    <3>1. r = open(q, now)
      BY <2>1, <2>5
    <3>. QED BY <1>5, <2>3, <2>5, <3>1 DEF p, r, q
  <2>6. CASE ~ok /\ ~(Len(q.failures) >= FailureThreshold)
    <3>1. r = q
      BY <2>1, <2>6
    <3>. QED BY <1>5, <2>2, <2>6, <3>1 DEF p, r, q
  <2>. QED BY <2>4, <2>5, <2>6
<1>6. c.state \in {"closed", "open", "half_open"}
  BY CircuitFields DEF CircuitOk
<1>. QED BY <1>3, <1>4, <1>5, <1>6

----------------------------------------------------------------------------
(* The Redis scripts                                                         *)

\* The sorted set z holds the failures g, numbered from off + 1.
Holds(z, g, off) == z = {<<g[i], i + off>> : i \in DOMAIN g}

LEMMA HeldCount ==
    ASSUME NEW g \in Seq(Nat), NEW off \in Nat, NEW S \in SUBSET DOMAIN g
    PROVE  Cardinality({<<g[i], i + off>> : i \in S}) = Cardinality(S)
<1>. DEFINE T == {<<g[i], i + off>> : i \in S}
            f == [i \in S |-> <<g[i], i + off>>]
<1>1. DOMAIN g = 1..Len(g) /\ Len(g) \in Nat
  BY SMT
<1>2. IsFiniteSet(S)
  <2>1. 1 \in Int /\ Len(g) \in Int
    BY <1>1, SMT
  <2>2. IsFiniteSet(1..Len(g))
    BY <2>1, FS_Interval
  <2>. QED BY <1>1, <2>2, FS_Subset
<1>3. \A i, j \in S : i + off = j + off => i = j
  BY <1>1, SMT
<1>4. f \in Bijection(S, T)
  <2>1. f \in [S -> T]
    OBVIOUS
  <2>2. \A i, j \in S : f[i] = f[j] => i = j
    <3>1. \A i \in S : f[i] = <<g[i], i + off>>
      OBVIOUS
    <3>. HIDE DEF f
    <3>2. ASSUME NEW i \in S, NEW j \in S, f[i] = f[j] PROVE i + off = j + off
      <4>1. <<g[i], i + off>> = <<g[j], j + off>>
        BY <3>1, <3>2
      <4>. QED BY <4>1
    <3>. QED BY <1>3, <3>2
  <2>3. \A t \in T : \E i \in S : f[i] = t
    OBVIOUS
  <2>. QED BY <2>1, <2>2, <2>3 DEF Bijection, Injection, IsInjective, Surjection
<1>5. ExistsBijection(S, T)
  BY <1>4 DEF ExistsBijection
<1>. QED BY <1>2, <1>5, FS_Bijection

LEMMA HeldSize ==
    ASSUME NEW g \in Seq(Nat), NEW off \in Nat, NEW z, Holds(z, g, off)
    PROVE  Cardinality(z) = Len(g)
<1>1. Cardinality(z) = Cardinality(DOMAIN g)
  BY HeldCount DEF Holds
<1>2. DOMAIN g = 1..Len(g) /\ Len(g) \in Nat
  BY SMT
<1>3. 1 \in Int /\ Len(g) \in Int
  BY <1>2, SMT
<1>4. Cardinality(1..Len(g)) = IF 1 > Len(g) THEN 0 ELSE Len(g) - 1 + 1
  BY <1>3, FS_Interval
<1>. QED BY <1>1, <1>2, <1>4, SMT

\* ZREMRANGEBYSCORE and _prune_failures
LEMMA HoldsPruned ==
    ASSUME NEW f \in Seq(Nat), NEW off \in Nat, NEW z, Holds(z, f, off),
           NEW now \in Nat, NEW g, Pruned(g, f, now)
    PROVE  /\ off + Len(f) - Len(g) \in Nat
           /\ Holds(ZRemBelow(z, Cutoff(now)), g, off + Len(f) - Len(g))
<1>1. PICK a \in 1..Len(f) + 1 : /\ g = SubSeq(f, a, Len(f))
                                 /\ \A i \in DOMAIN f : a <= i <=> f[i] >= now - Window
  BY DEF Pruned
<1>2. g \in Seq(Nat) /\ Len(g) = Len(f) - a + 1 /\ \A i \in 1..Len(f) - a + 1 : g[i] = f[i + a - 1]
  BY <1>1, SuffixFacts
<1>3. DOMAIN f = 1..Len(f) /\ DOMAIN g = 1..Len(g) /\ Len(f) \in Nat /\ \A i \in DOMAIN f : f[i] \in Nat
  BY <1>2, SMT
<1>. DEFINE e == off + Len(f) - Len(g)
<1>4. e \in Nat /\ e = off + (a - 1)
  BY <1>2, <1>3, SMT
<1>5. \A x \in Nat : x >= Cutoff(now) <=> x >= now - Window
  BY CircuitBreakerSpec, SMT DEF Cutoff
<1>. HIDE DEF e
<1>6. ASSUME NEW m \in ZRemBelow(z, Cutoff(now)) PROVE m \in {<<g[i], i + e>> : i \in DOMAIN g}
  <2>1. PICK i \in DOMAIN f : m = <<f[i], i + off>>
    BY DEF ZRemBelow, Holds
  <2>2. f[i] >= Cutoff(now)
    BY <2>1 DEF ZRemBelow
  <2>3. a <= i
    BY <1>1, <1>3, <1>5, <2>2
  <2>4. i - a + 1 \in DOMAIN g /\ g[i - a + 1] = f[i] /\ (i - a + 1) + e = i + off
    <3>1. i - a + 1 \in 1..Len(f) - a + 1 /\ (i - a + 1) + a - 1 = i /\ (i - a + 1) + e = i + off
      BY <1>3, <1>4, <2>3, SMT
    <3>2. g[i - a + 1] = f[(i - a + 1) + a - 1]
      BY <1>2, <3>1
    <3>. QED BY <1>2, <1>3, <3>1, <3>2
  <2>. QED BY <2>1, <2>4
<1>7. ASSUME NEW m \in {<<g[i], i + e>> : i \in DOMAIN g} PROVE m \in ZRemBelow(z, Cutoff(now))
  <2>1. PICK i \in DOMAIN g : m = <<g[i], i + e>>
    OBVIOUS
  <2>2. i + a - 1 \in DOMAIN f /\ g[i] = f[i + a - 1] /\ a <= i + a - 1 /\ i + e = (i + a - 1) + off
    <3>1. i \in 1..Len(f) - a + 1
      BY <1>2, <1>3
    <3>2. i + a - 1 \in 1..Len(f) /\ a <= i + a - 1 /\ i + e = (i + a - 1) + off
      <4>1. Len(f) \in Nat
        BY <1>3
      <4>2. i + a - 1 \in 1..Len(f) /\ a <= i + a - 1
        BY <3>1, <4>1, SMT
      <4>3. i + (off + (a - 1)) = (i + a - 1) + off
        BY <3>1, <4>1, SMT
      <4>. QED BY <1>4, <4>2, <4>3
    <3>. QED BY <1>2, <1>3, <3>1, <3>2
  <2>3. m = <<f[i + a - 1], (i + a - 1) + off>>
    BY <2>1, <2>2
  <2>4. m \in z /\ m[1] = f[i + a - 1]
    BY <2>2, <2>3 DEF Holds
  <2>5. f[i + a - 1] >= Cutoff(now)
    BY <1>1, <1>3, <1>5, <2>2
  <2>. QED BY <2>4, <2>5 DEF ZRemBelow
<1>. QED BY <1>4, <1>6, <1>7 DEF Holds, e

\* ZADD and append
LEMMA HoldsAppended ==
    ASSUME NEW g \in Seq(Nat), NEW off \in Nat, NEW z, Holds(z, g, off), NEW now \in Nat
    PROVE  Holds(z \cup {<<now, off + Len(g) + 1>>}, Append(g, now), off)
<1>. DEFINE h == Append(g, now)
<1>1. /\ DOMAIN h = 1..Len(g) + 1 /\ DOMAIN g = 1..Len(g) /\ Len(g) \in Nat
      /\ \A i \in 1..Len(g) : h[i] = g[i]
      /\ h[Len(g) + 1] = now
  BY SMT
<1>. HIDE DEF h
<1>2. /\ DOMAIN h = DOMAIN g \cup {Len(g) + 1} /\ (Len(g) + 1) + off = off + Len(g) + 1
      /\ \A i \in DOMAIN g : h[i] = g[i]
  BY <1>1, SMT
<1>3. {<<h[i], i + off>> : i \in DOMAIN h}
      = {<<g[i], i + off>> : i \in DOMAIN g} \cup {<<now, (Len(g) + 1) + off>>}
  BY <1>1, <1>2
<1>. QED BY <1>2, <1>3 DEF Holds, h

LEMMA SameFacts ==
    ASSUME NEW h, NEW c, h.state = c.state, h.opened_at = c.opened_at,
           h.in_flight = c.half_open_in_flight, h.successes = c.half_open_successes,
           c.failures \in Seq(Nat), NEW off \in Nat, Holds(h.failures, c.failures, off)
    PROVE  SameCircuit(h, c)
<1>. DEFINE g == c.failures
            z == h.failures
<1>1. g \in Seq(Nat) /\ Holds(z, g, off)
  OBVIOUS
<1>. HIDE DEF g, z
<1>2. ASSUME NEW t
      PROVE  Cardinality({m \in z : m[1] = t}) = Cardinality({i \in DOMAIN g : g[i] = t})
  <2>. DEFINE S == {i \in DOMAIN g : g[i] = t}
              Pair(i) == <<g[i], i + off>>
  <2>1. \A i : Pair(i)[1] = g[i]
    OBVIOUS
  <2>2. Cardinality({Pair(i) : i \in S}) = Cardinality(S)
    BY <1>1, HeldCount
  <2>3. z = {Pair(i) : i \in DOMAIN g}
    BY <1>1 DEF Holds
  <2>. HIDE DEF Pair
  <2>4. {m \in z : m[1] = t} = {Pair(i) : i \in S}
    BY <2>1, <2>3
  <2>. QED BY <2>2, <2>4
<1>. QED BY <1>2 DEF SameCircuit, g, z

LEMMA HoldsNone == Holds({}, <<>>, 0) /\ 0 \in Nat /\ <<>> \in Seq(Nat)
  BY SMT DEF Holds

\* The circuit a transition has just emptied of failures.
LEMMA SameEmpty ==
    ASSUME NEW h, NEW c, h.state = c.state, h.opened_at = c.opened_at,
           h.in_flight = c.half_open_in_flight, h.successes = c.half_open_successes,
           c.failures = <<>>, h.failures = {}
    PROVE  SameCircuit(h, c)
<1>1. c.failures \in Seq(Nat) /\ 0 \in Nat /\ Holds(h.failures, c.failures, 0)
  BY HoldsNone
<1>. QED BY <1>1, SameFacts

LEMMA HashFacts ==
    ASSUME NEW now \in Nat, NEW c, CircuitOk(c, now)
    PROVE  LET h == HashOf(c)
               p == prune_failures(c, now)
               z == ZRemBelow(h.failures, Cutoff(now))
           IN
           /\ h.state = c.state /\ h.opened_at = c.opened_at /\ h.in_flight = c.half_open_in_flight
           /\ h.successes = c.half_open_successes /\ h.failure_seq = Len(c.failures)
           /\ Len(c.failures) - Len(p.failures) \in Nat
           /\ Holds(z, p.failures, Len(c.failures) - Len(p.failures))
           /\ Cardinality(z) = Len(p.failures)
<1>. DEFINE h == HashOf(c)
            f == c.failures
            g == prune_failures(c, now).failures
            z == ZRemBelow(h.failures, Cutoff(now))
<1>1. /\ h.state = c.state /\ h.opened_at = c.opened_at /\ h.in_flight = c.half_open_in_flight
      /\ h.successes = c.half_open_successes /\ h.failure_seq = Len(f)
      /\ h.failures = {<<f[i], i>> : i \in DOMAIN f}
  BY DEF HashOf
<1>2. f \in Seq(Nat) /\ Pruned(g, f, now)
  BY PruneFacts, CircuitFields DEF CircuitOk
<1>3. g \in Seq(Nat)
  BY PruneFacts, CircuitFields DEF CircuitOk
<1>. HIDE DEF h, f, g
<1>4. Holds(h.failures, f, 0) /\ 0 \in Nat
  <2>1. DOMAIN f = 1..Len(f) /\ \A i \in 1..Len(f) : i + 0 = i
    BY <1>2, SMT
  <2>2. {<<f[i], i>> : i \in DOMAIN f} = {<<f[i], i + 0>> : i \in DOMAIN f}
    BY <2>1
  <2>. QED BY <1>1, <2>2, HoldsNone DEF Holds
<1>5. 0 + Len(f) - Len(g) \in Nat /\ Holds(z, g, 0 + Len(f) - Len(g))
  BY <1>2, <1>4, HoldsPruned
<1>6. 0 + Len(f) - Len(g) = Len(f) - Len(g)
  BY <1>2, <1>3, SMT
<1>7. Cardinality(z) = Len(g)
  BY <1>3, <1>5, HeldSize
<1>. QED BY <1>1, <1>5, <1>6, <1>7 DEF h, f, g

LEMMA HSetOpen ==
    ASSUME NEW h, NEW o, NEW n, NEW u, NEW z
    PROVE  LET x == HSet(h, "open", o, n, u, z) IN
           /\ x.state = "open" /\ x.opened_at = o
           /\ x.in_flight = n /\ x.successes = u /\ x.failures = z
  BY SMT DEF HSet

LEMMA HSetOther ==
    ASSUME NEW h, NEW s \in {"closed", "half_open"}, NEW o, NEW n, NEW u, NEW z
    PROVE  LET x == HSet(h, s, o, n, u, z) IN
           /\ x.state = s /\ x.opened_at = NoTime
           /\ x.in_flight = n /\ x.successes = u /\ x.failures = z
  BY SMT DEF HSet

\* ALLOW_CALL_LUA is allow_call.
LEMMA AllowMatches ==
    ASSUME NEW now \in Nat, NEW c, CircuitOk(c, now)
    PROVE  LET a == allow_call(c, now)
               lua == ALLOW_CALL_LUA(HashOf(c), now)
           IN  lua.decision = a.decision /\ SameCircuit(lua.hash, a.circuit)
<1>. DEFINE a == allow_call(c, now)
            h == HashOf(c)
            p == prune_failures(c, now)
            z == ZRemBelow(h.failures, Cutoff(now))
            e == Len(c.failures) - Len(p.failures)
            lua == ALLOW_CALL_LUA(h, now)
            remaining == h.opened_at + OpenCooldown - now
            lapsed == h.state = "open" /\ remaining <= 0
            flying == IF lapsed THEN 0 ELSE h.in_flight
            successes == IF lapsed THEN 0 ELSE h.successes
            full == flying >= half_open_permit_limit
            Answers(x, y) == [hash |-> x, decision |-> y]
<1>1. /\ CircuitOk(p, now) /\ p.state = c.state /\ p.opened_at = c.opened_at
      /\ p.half_open_in_flight = c.half_open_in_flight /\ p.half_open_successes = c.half_open_successes
  BY PruneFacts
<1>2. /\ h.state = c.state /\ h.opened_at = c.opened_at /\ h.in_flight = c.half_open_in_flight
      /\ h.successes = c.half_open_successes
      /\ e \in Nat /\ Holds(z, p.failures, e) /\ Cardinality(z) = Len(p.failures)
  BY HashFacts
<1>3. lua = CASE h.state = "open" /\ ~lapsed ->
                   Answers(HSet(h, "open", h.opened_at, h.in_flight, h.successes, z),
                           Decision(FALSE, "open", remaining))
              [] lapsed \/ h.state = "half_open" ->
                   Answers(HSet(h, "half_open", NoTime, IF full THEN flying ELSE flying + 1, successes,
                                IF lapsed THEN {} ELSE z),
                           Decision(~full, "half_open", IF full THEN 0 ELSE NoTime))
              [] h.state = "closed" /\ Cardinality(z) >= FailureThreshold ->
                   Answers(HSet(h, "open", now, 0, 0, {}), Decision(FALSE, "open", OpenCooldown))
              [] OTHER ->
                   Answers(HSet(h, "closed", NoTime, h.in_flight, h.successes, z),
                           Decision(TRUE, "closed", NoTime))
  BY DEF ALLOW_CALL_LUA
<1>4. \A x, y : Answers(x, y).hash = x /\ Answers(x, y).decision = y
  OBVIOUS
<1>5. p.failures \in Seq(Nat)
  BY <1>1, CircuitFields DEF CircuitOk
<1>. HIDE DEF Answers, lua, h, p, z, e, a
<1>6. CASE c.state = "open"
  <2>1. h.opened_at \in Nat /\ OpenCooldown \in Nat
    BY <1>2, <1>6, CircuitBreakerSpec DEF CircuitOk
  <2>2. (remaining > 0) <=> ~(remaining <= 0)
    BY <2>1, SMT
  <2>3. CASE remaining > 0
    <3>1. a.circuit = p /\ a.decision = Decision(FALSE, "open", remaining)
      BY <1>2, <1>6, <2>3, AllowFacts DEF a, p
    <3>. DEFINE x == HSet(h, "open", h.opened_at, h.in_flight, h.successes, z)
    <3>2. lua = Answers(x, Decision(FALSE, "open", remaining))
      BY <1>2, <1>3, <1>6, <2>2, <2>3
    <3>3. /\ x.state = "open" /\ x.opened_at = h.opened_at /\ x.in_flight = h.in_flight
          /\ x.successes = h.successes /\ x.failures = z
      BY HSetOpen, SMT
    <3>. HIDE DEF x, remaining
    <3>4. SameCircuit(x, p)
      BY <1>1, <1>2, <1>5, <1>6, <3>3, SameFacts
    <3>. QED BY <1>4, <3>1, <3>2, <3>4 DEF a, lua, h
  <2>4. CASE ~(remaining > 0)
    <3>. DEFINE hp == half_open(p)
                x == HSet(h, "half_open", NoTime, 1, 0, {})
    <3>1. a = TakePermit(hp)
      BY <1>2, <1>6, <2>4, AllowFacts DEF a, p
    <3>2. /\ CircuitOk(hp, now) /\ hp.state = "half_open" /\ hp.failures = <<>> /\ hp.opened_at = NoTime
          /\ hp.half_open_in_flight = 0 /\ hp.half_open_successes = 0
      BY <1>1, HalfOpenFacts
    <3>3. ~(0 >= half_open_permit_limit) /\ 0 + 1 = 1
      BY PermitLimit, SMT
    <3>. HIDE DEF hp
    <3>4. /\ a.circuit.state = "half_open" /\ a.circuit.failures = <<>> /\ a.circuit.opened_at = NoTime
          /\ a.circuit.half_open_in_flight = 1 /\ a.circuit.half_open_successes = 0
          /\ a.decision = Decision(TRUE, "half_open", NoTime)
      BY <3>1, <3>2, <3>3, TakePermitFacts
    <3>5. lapsed /\ flying = 0 /\ successes = 0 /\ ~full
      BY <1>2, <1>6, <2>2, <2>4, <3>3
    <3>. HIDE DEF lapsed, full, flying, successes
    <3>6. lua = Answers(HSet(h, "half_open", NoTime, IF full THEN flying ELSE flying + 1, successes,
                             IF lapsed THEN {} ELSE z),
                        Decision(~full, "half_open", IF full THEN 0 ELSE NoTime))
      BY <1>2, <1>3, <1>6, <3>5
    <3>7. (~full) = TRUE
      BY <3>5
    <3>8. lua = Answers(x, Decision(TRUE, "half_open", NoTime))
      BY <3>3, <3>5, <3>6, <3>7
    <3>9. /\ x.state = "half_open" /\ x.opened_at = NoTime /\ x.in_flight = 1
          /\ x.successes = 0 /\ x.failures = {}
      BY HSetOther, SMT
    <3>. HIDE DEF x
    <3>10. SameCircuit(x, a.circuit)
      BY <3>4, <3>9, HoldsNone, SameFacts
    <3>11. lua.hash = x /\ lua.decision = Decision(TRUE, "half_open", NoTime)
      BY <1>4, <3>8
    <3>. QED BY <3>4, <3>10, <3>11 DEF a, lua, h
  <2>. QED BY <2>3, <2>4
<1>7. CASE c.state = "half_open"
  <2>. DEFINE n == h.in_flight
              x == HSet(h, "half_open", NoTime, IF full THEN n ELSE n + 1, h.successes, z)
  <2>1. a = TakePermit(p)
    BY <1>7, AllowFacts DEF a, p
  <2>2. p.half_open_in_flight = n /\ p.half_open_successes = h.successes /\ p.opened_at = NoTime
    BY <1>1, <1>2, <1>7 DEF CircuitOk
  <2>3. ~lapsed /\ flying = n /\ successes = h.successes
    BY <1>2, <1>7
  <2>4. full <=> n >= half_open_permit_limit
    BY <2>3
  <2>5. /\ a.circuit.state = "half_open" /\ a.circuit.failures = p.failures /\ a.circuit.opened_at = NoTime
        /\ a.circuit.half_open_in_flight = (IF full THEN n ELSE n + 1)
        /\ a.circuit.half_open_successes = h.successes
        /\ full => a.decision = Decision(FALSE, "half_open", 0)
        /\ ~full => a.decision = Decision(TRUE, "half_open", NoTime)
    <3>. HIDE DEF full, n
    <3>. QED BY <1>1, <1>7, <2>1, <2>2, <2>4, TakePermitFacts
  <2>6. lua = Answers(HSet(h, "half_open", NoTime, IF full THEN flying ELSE flying + 1, successes,
                           IF lapsed THEN {} ELSE z),
                      Decision(~full, "half_open", IF full THEN 0 ELSE NoTime))
    <3>. HIDE DEF full, flying, successes
    <3>. QED BY <1>2, <1>3, <1>7, <2>3
  <2>7. full \in BOOLEAN
    BY SMT
  <2>. HIDE DEF lapsed, full, flying, successes
  <2>8. lua = Answers(x, Decision(~full, "half_open", IF full THEN 0 ELSE NoTime))
    BY <2>3, <2>6
  <2>9. Decision(~full, "half_open", IF full THEN 0 ELSE NoTime) = a.decision
    <3>1. CASE full
      <4>1. (~full) = FALSE
        BY <2>7, <3>1
      <4>. QED BY <2>5, <3>1, <4>1
    <3>2. CASE ~full
      <4>1. (~full) = TRUE
        BY <3>2
      <4>. QED BY <2>5, <3>2, <4>1
    <3>. QED BY <3>1, <3>2
  <2>10. /\ x.state = "half_open" /\ x.opened_at = NoTime /\ x.in_flight = (IF full THEN n ELSE n + 1)
         /\ x.successes = h.successes /\ x.failures = z
    BY HSetOther, SMT
  <2>. HIDE DEF x
  <2>11. SameCircuit(x, a.circuit)
    <3>1. Holds(x.failures, a.circuit.failures, e) /\ a.circuit.failures \in Seq(Nat) /\ e \in Nat
      BY <1>2, <1>5, <2>5, <2>10
    <3>. QED BY <2>5, <2>10, <3>1, SameFacts
  <2>12. lua.hash = x /\ lua.decision = a.decision
    BY <1>4, <2>8, <2>9
  <2>. QED BY <2>11, <2>12 DEF a, lua, h
<1>8. CASE c.state = "closed"
  <2>1. ~lapsed
    BY <1>2, <1>8
  <2>. HIDE DEF lapsed
  <2>2. CASE Len(p.failures) >= FailureThreshold
    <3>. DEFINE o == open(p, now)
                x == HSet(h, "open", now, 0, 0, {})
    <3>1. a.circuit = o /\ a.decision = Decision(FALSE, "open", OpenCooldown)
      BY <1>8, <2>2, AllowFacts DEF a, p
    <3>2. /\ o.state = "open" /\ o.failures = <<>> /\ o.opened_at = now
          /\ o.half_open_in_flight = 0 /\ o.half_open_successes = 0
      BY <1>1, OpenFacts
    <3>3. lua = Answers(x, Decision(FALSE, "open", OpenCooldown))
      BY <1>2, <1>3, <1>8, <2>1, <2>2
    <3>4. /\ x.state = "open" /\ x.opened_at = now /\ x.in_flight = 0 /\ x.successes = 0 /\ x.failures = {}
      BY HSetOpen, SMT
    <3>. HIDE DEF o, x
    <3>5. SameCircuit(x, o)
      BY <3>2, <3>4, HoldsNone, SameFacts
    <3>. QED BY <1>4, <3>1, <3>3, <3>5 DEF a, lua, h
  <2>3. CASE ~(Len(p.failures) >= FailureThreshold)
    <3>. DEFINE x == HSet(h, "closed", NoTime, h.in_flight, h.successes, z)
    <3>1. a.circuit = p /\ a.decision = Decision(TRUE, "closed", NoTime)
      BY <1>8, <2>3, AllowFacts DEF a, p
    <3>2. lua = Answers(x, Decision(TRUE, "closed", NoTime))
      BY <1>2, <1>3, <1>8, <2>1, <2>3
    <3>3. /\ x.state = "closed" /\ x.opened_at = NoTime /\ x.in_flight = h.in_flight
          /\ x.successes = h.successes /\ x.failures = z
      BY HSetOther, SMT
    <3>4. p.opened_at = NoTime
      BY <1>1, <1>8 DEF CircuitOk
    <3>. HIDE DEF x
    <3>5. SameCircuit(x, p)
      BY <1>1, <1>2, <1>5, <1>8, <3>3, <3>4, SameFacts
    <3>. QED BY <1>4, <3>1, <3>2, <3>5 DEF a, lua, h
  <2>. QED BY <2>2, <2>3
<1>9. c.state \in {"closed", "open", "half_open"}
  BY CircuitFields DEF CircuitOk
<1>. QED BY <1>6, <1>7, <1>8, <1>9

\* RECORD_RESULT_LUA is record_result.
LEMMA RecordMatches ==
    ASSUME NEW now \in Nat, NEW c, CircuitOk(c, now), NEW ok \in BOOLEAN
    PROVE  SameCircuit(RECORD_RESULT_LUA(HashOf(c), ok, now), record_result(c, ok, now))
<1>. DEFINE r == record_result(c, ok, now)
            h == HashOf(c)
            p == prune_failures(c, now)
            q == Failing(p, now)
            z == ZRemBelow(h.failures, Cutoff(now))
            e == Len(c.failures) - Len(p.failures)
            lua == RECORD_RESULT_LUA(h, ok, now)
            flying == IF h.in_flight > 0 THEN h.in_flight - 1 ELSE 0
            added == ZRemBelow(z \cup {<<now, h.failure_seq + 1>>}, Cutoff(now))
            counted == [h EXCEPT !.failure_seq = @ + 1]
<1>1. /\ CircuitOk(p, now) /\ p.state = c.state /\ p.opened_at = c.opened_at
      /\ p.half_open_in_flight = c.half_open_in_flight /\ p.half_open_successes = c.half_open_successes
  BY PruneFacts
<1>2. /\ h.state = c.state /\ h.opened_at = c.opened_at /\ h.in_flight = c.half_open_in_flight
      /\ h.successes = c.half_open_successes /\ h.failure_seq = Len(c.failures)
      /\ e \in Nat /\ Holds(z, p.failures, e)
  BY HashFacts
<1>3. lua = CASE h.state = "half_open" /\ ~ok -> HSet(h, "open", now, 0, 0, {})
              [] h.state = "half_open" /\ ok /\ h.successes + 1 >= SuccessThreshold ->
                   HSet(h, "closed", NoTime, 0, 0, {})
              [] h.state = "half_open" /\ ok /\ h.successes + 1 < SuccessThreshold ->
                   HSet(h, "half_open", NoTime, flying, h.successes + 1, z)
              [] h.state = "open" ->
                   HSet(h, "open", IF ok THEN h.opened_at ELSE now, h.in_flight, h.successes, z)
              [] h.state = "closed" /\ ok -> HSet(h, "closed", NoTime, h.in_flight, h.successes, z)
              [] h.state = "closed" /\ ~ok /\ Cardinality(added) >= FailureThreshold ->
                   HSet(counted, "open", now, 0, 0, {})
              [] OTHER -> HSet(counted, "closed", NoTime, h.in_flight, h.successes, added)
  BY DEF RECORD_RESULT_LUA
<1>4. /\ p.failures \in Seq(Nat) /\ c.failures \in Seq(Nat) /\ c.half_open_in_flight \in Nat
      /\ c.half_open_successes \in Nat /\ SuccessThreshold \in Nat
  BY <1>1, CircuitFields, CircuitBreakerSpec DEF CircuitOk
<1>. HIDE DEF lua, h, p, z, e, r, counted
<1>5. CASE c.state = "half_open" /\ ~ok
  <2>. DEFINE o == open(p, now)
              x == HSet(h, "open", now, 0, 0, {})
  <2>1. r = o
    BY <1>5, RecordFacts DEF r, p
  <2>2. /\ o.state = "open" /\ o.failures = <<>> /\ o.opened_at = now
        /\ o.half_open_in_flight = 0 /\ o.half_open_successes = 0
    BY <1>1, OpenFacts
  <2>3. lua = x
    BY <1>2, <1>3, <1>5
  <2>4. /\ x.state = "open" /\ x.opened_at = now /\ x.in_flight = 0 /\ x.successes = 0 /\ x.failures = {}
    BY HSetOpen, SMT
  <2>. HIDE DEF o, x
  <2>5. /\ x.state = o.state /\ x.opened_at = o.opened_at /\ x.in_flight = o.half_open_in_flight
        /\ x.successes = o.half_open_successes /\ o.failures = <<>> /\ x.failures = {}
    BY <2>2, <2>4
  <2>6. SameCircuit(x, o)
    BY <2>5, SameEmpty
  <2>. QED BY <2>1, <2>3, <2>6 DEF lua, r, h
<1>6. CASE c.state = "half_open" /\ ok /\ h.successes + 1 >= SuccessThreshold
  <2>. DEFINE x == HSet(h, "closed", NoTime, 0, 0, {})
  <2>1. /\ r.state = "closed" /\ r.failures = <<>> /\ r.opened_at = NoTime
        /\ r.half_open_in_flight = 0 /\ r.half_open_successes = 0
    BY <1>2, <1>6, RecordFacts, ZenonT(60) DEF r
  <2>2. ~(h.successes + 1 < SuccessThreshold)
    BY <1>2, <1>4, <1>6, SMT
  <2>3. lua = x
    BY <1>2, <1>3, <1>6, <2>2
  <2>4. /\ x.state = "closed" /\ x.opened_at = NoTime /\ x.in_flight = 0 /\ x.successes = 0 /\ x.failures = {}
    BY HSetOther, SMT
  <2>. HIDE DEF x
  <2>5. /\ x.state = r.state /\ x.opened_at = r.opened_at /\ x.in_flight = r.half_open_in_flight
        /\ x.successes = r.half_open_successes /\ r.failures = <<>> /\ x.failures = {}
    BY <2>1, <2>4
  <2>6. SameCircuit(x, r)
    BY <2>5, SameEmpty
  <2>. QED BY <2>3, <2>6 DEF lua, r, h
<1>7. CASE c.state = "half_open" /\ ok /\ ~(h.successes + 1 >= SuccessThreshold)
  <2>. DEFINE u == h.successes + 1
              x == HSet(h, "half_open", NoTime, flying, u, z)
  <2>1. /\ r.state = "half_open" /\ r.failures = p.failures /\ r.opened_at = NoTime
        /\ r.half_open_in_flight
             = IF c.half_open_in_flight > 0 THEN c.half_open_in_flight - 1 ELSE c.half_open_in_flight
        /\ r.half_open_successes = u
    <3>1. ~(c.half_open_successes + 1 >= SuccessThreshold)
      BY <1>2, <1>7
    <3>2. /\ r.state = "half_open" /\ r.failures = p.failures /\ r.opened_at = NoTime
          /\ r.half_open_in_flight
               = IF c.half_open_in_flight > 0 THEN c.half_open_in_flight - 1 ELSE c.half_open_in_flight
          /\ r.half_open_successes = c.half_open_successes + 1
      BY <1>7, <3>1, RecordCounted DEF r, p
    <3>. QED BY <1>2, <3>2
  <2>2. u < SuccessThreshold /\ r.half_open_in_flight = flying
    BY <1>2, <1>4, <1>7, <2>1, SMT
  <2>3. lua = x
    BY <1>2, <1>3, <1>7, <2>2
  <2>. HIDE DEF flying, u
  <2>4. /\ x.state = "half_open" /\ x.opened_at = NoTime /\ x.in_flight = flying
        /\ x.successes = u /\ x.failures = z
    BY HSetOther, SMT
  <2>. HIDE DEF x
  <2>5. SameCircuit(x, r)
    BY <1>2, <1>4, <2>1, <2>2, <2>4, SameFacts
  <2>. QED BY <2>3, <2>5 DEF lua, r, h
<1>8. CASE c.state = "open"
  <2>. DEFINE o == IF ok THEN h.opened_at ELSE now
              x == HSet(h, "open", o, h.in_flight, h.successes, z)
  <2>1. lua = x
    BY <1>2, <1>3, <1>8
  <2>2. p.failures = <<>>
    BY <1>1, <1>8 DEF CircuitOk
  <2>3. /\ r.state = "open" /\ r.failures = p.failures /\ r.opened_at = o
        /\ r.half_open_in_flight = h.in_flight /\ r.half_open_successes = h.successes
    <3>1. CASE ok
      <4>1. r = p
        BY <1>8, <3>1, RecordFacts DEF r, p
      <4>. QED BY <1>1, <1>2, <1>8, <3>1, <4>1
    <3>2. CASE ~ok
      <4>1. /\ r.state = "open" /\ r.failures = <<>> /\ r.opened_at = now
            /\ r.half_open_in_flight = c.half_open_in_flight
            /\ r.half_open_successes = c.half_open_successes
        BY <1>8, <3>2, RecordReopened DEF r
      <4>. QED BY <1>2, <2>2, <3>2, <4>1
    <3>. QED BY <3>1, <3>2
  <2>. HIDE DEF o
  <2>4. /\ x.state = "open" /\ x.opened_at = o /\ x.in_flight = h.in_flight
        /\ x.successes = h.successes /\ x.failures = z
    BY HSetOpen, SMT
  <2>. HIDE DEF x
  <2>5. SameCircuit(x, r)
    BY <1>2, <1>4, <2>3, <2>4, SameFacts
  <2>. QED BY <2>1, <2>5 DEF lua, r, h
<1>9. CASE c.state = "closed" /\ ok
  <2>. DEFINE x == HSet(h, "closed", NoTime, h.in_flight, h.successes, z)
  <2>1. lua = x
    BY <1>2, <1>3, <1>9
  <2>2. r = p
    BY <1>9, RecordFacts DEF r, p
  <2>3. /\ x.state = "closed" /\ x.opened_at = NoTime /\ x.in_flight = h.in_flight
        /\ x.successes = h.successes /\ x.failures = z
    BY HSetOther, SMT
  <2>4. p.opened_at = NoTime
    BY <1>1, <1>9 DEF CircuitOk
  <2>. HIDE DEF x
  <2>5. SameCircuit(x, p)
    BY <1>1, <1>2, <1>4, <1>9, <2>3, <2>4, SameFacts
  <2>. QED BY <2>1, <2>2, <2>5 DEF lua, r, h
<1>10. CASE c.state = "closed" /\ ~ok
  <2>. DEFINE g == Append(p.failures, now)
              y == z \cup {<<now, e + Len(p.failures) + 1>>}
  <2>1. /\ CircuitOk(q, now) /\ q.state = "closed" /\ q.opened_at = NoTime
        /\ Pruned(q.failures, g, now)
        /\ q.half_open_in_flight = h.in_flight /\ q.half_open_successes = h.successes
    <3>1. p.state = "closed"
      BY <1>1, <1>10
    <3>. QED BY <1>1, <1>2, <3>1, FailingFacts
  <2>. HIDE DEF q
  <2>2. g \in Seq(Nat) /\ q.failures \in Seq(Nat)
    <3>1. g \in Seq(Nat)
      BY <1>4, SMT
    <3>2. q.failures \in Seq(Nat)
      BY <2>1, CircuitFields DEF CircuitOk
    <3>. QED BY <3>1, <3>2
  <2>3. e + Len(p.failures) + 1 = h.failure_seq + 1
    BY <1>2, <1>4, SMT DEF e
  <2>4. Holds(y, g, e)
    BY <1>2, <1>4, HoldsAppended
  <2>5. added = ZRemBelow(y, Cutoff(now))
    BY <2>3
  <2>. HIDE DEF added, y, g
  <2>. DEFINE d == e + Len(g) - Len(q.failures)
  <2>6. d \in Nat /\ Holds(added, q.failures, d)
    BY <1>2, <2>1, <2>2, <2>4, <2>5, HoldsPruned
  <2>. HIDE DEF d
  <2>7. Cardinality(added) = Len(q.failures)
    BY <2>2, <2>6, HeldSize
  <2>8. CASE Len(q.failures) >= FailureThreshold
    <3>. DEFINE o == open(q, now)
                x == HSet(counted, "open", now, 0, 0, {})
    <3>1. r = o
      BY <1>10, <2>8, RecordFacts DEF r, p, q
    <3>2. /\ o.state = "open" /\ o.failures = <<>> /\ o.opened_at = now
          /\ o.half_open_in_flight = 0 /\ o.half_open_successes = 0
      BY <2>1, OpenFacts
    <3>3. lua = x
      BY <1>2, <1>3, <1>10, <2>7, <2>8
    <3>4. /\ x.state = "open" /\ x.opened_at = now /\ x.in_flight = 0 /\ x.successes = 0 /\ x.failures = {}
      BY HSetOpen, SMT
    <3>. HIDE DEF o, x
    <3>5. /\ x.state = o.state /\ x.opened_at = o.opened_at /\ x.in_flight = o.half_open_in_flight
          /\ x.successes = o.half_open_successes /\ o.failures = <<>> /\ x.failures = {}
      BY <3>2, <3>4
    <3>6. SameCircuit(x, o)
      BY <3>5, SameEmpty
    <3>. QED BY <3>1, <3>3, <3>6 DEF lua, r, h
  <2>9. CASE ~(Len(q.failures) >= FailureThreshold)
    <3>. DEFINE x == HSet(counted, "closed", NoTime, h.in_flight, h.successes, added)
    <3>1. r = q
      BY <1>10, <2>9, RecordFacts, ZenonT(60) DEF r, p, q
    <3>2. lua = x
      BY <1>2, <1>3, <1>10, <2>7, <2>9
    <3>3. /\ x.state = "closed" /\ x.opened_at = NoTime /\ x.in_flight = h.in_flight
          /\ x.successes = h.successes /\ x.failures = added
      BY HSetOther, SMT
    <3>. HIDE DEF x
    <3>4. SameCircuit(x, q)
      BY <2>1, <2>2, <2>6, <3>3, SameFacts
    <3>. QED BY <3>1, <3>2, <3>4 DEF lua, r, h
  <2>. QED BY <2>8, <2>9
<1>11. c.state \in {"closed", "open", "half_open"}
  BY CircuitFields DEF CircuitOk
<1>. QED BY <1>5, <1>6, <1>7, <1>8, <1>9, <1>10, <1>11

----------------------------------------------------------------------------
(* The breaker's map                                                         *)

LEMMA SeenFacts ==
    ASSUME NEW now \in Nat, NEW c, CircuitOk(c, now), NEW t \in Nat
    PROVE  LET x == [c EXCEPT !.last_seen = t] IN
           /\ CircuitOk(x, now)
           /\ x.state = c.state /\ x.failures = c.failures /\ x.opened_at = c.opened_at
<1>. DEFINE x == [c EXCEPT !.last_seen = t]
<1>1. c \in Circuits
  BY DEF CircuitOk
<1>2. /\ x \in Circuits
      /\ x.state = c.state /\ x.failures = c.failures /\ x.opened_at = c.opened_at
  BY <1>1, SMT DEF Circuits
<1>. HIDE DEF x
<1>3. CircuitOk(x, now)
  BY <1>2 DEF CircuitOk
<1>. QED BY <1>2, <1>3 DEF x

LEMMA OkLater ==
    ASSUME NEW now \in Nat, NEW later \in Nat, now <= later, NEW c, CircuitOk(c, now)
    PROVE  CircuitOk(c, later)
<1>1. c.failures \in Seq(Nat)
  BY CircuitFields DEF CircuitOk
<1>2. ASSUME NEW i \in DOMAIN c.failures PROVE c.failures[i] <= later
  <2>1. c.failures[i] \in Nat
    BY <1>1, ElementsOf
  <2>2. c.failures[i] <= now
    BY DEF CircuitOk
  <2>. QED BY <2>1, <2>2, SMT
<1>. QED BY <1>2 DEF CircuitOk

LEMMA ForgottenFacts ==
    ASSUME NEW d \in LruMaps(BreakerKeys, Circuits)
    PROVE  /\ Forgotten(d) \in LruMaps(BreakerKeys, Circuits)
           /\ \A k : Has(Forgotten(d), k) => Has(d, k) /\ Lookup(Forgotten(d), k) = Lookup(d, k)
<1>. DEFINE fresh == {i \in DOMAIN d : clock - d[i].val.last_seen <= BreakerTtl}
            e == EvictExpired(d, fresh)
<1>1. fresh \in SUBSET DOMAIN d
  OBVIOUS
<1>2. e = Forgotten(d)
  BY DEF Forgotten
<1>. HIDE DEF fresh
<1>3. /\ e \in LruMaps(BreakerKeys, Circuits)
      /\ \A k : Has(e, k) => Has(d, k) /\ Lookup(e, k) = Lookup(d, k)
  BY <1>1, EvictExpiredMap, SMT
<1>. QED BY <1>2, <1>3

LEMMA StoredFacts ==
    ASSUME NEW d \in LruMaps(BreakerKeys, Circuits), NEW k \in BreakerKeys, NEW x \in Circuits
    PROVE  LET e == Stored(d, k, x) IN
           /\ e \in LruMaps(BreakerKeys, Circuits)
           /\ Has(e, k) => Lookup(e, k) = x
           /\ \A j : j # k /\ Has(e, j) => Has(d, j) /\ Lookup(e, j) = Lookup(d, j)
<1>. DEFINE f == Forgotten(d)
            g == Touch(f, k, x)
            e == EvictLru(g, BreakerMaxKeys)
<1>1. /\ f \in LruMaps(BreakerKeys, Circuits)
      /\ \A j : Has(f, j) => Has(d, j) /\ Lookup(f, j) = Lookup(d, j)
  BY ForgottenFacts
<1>. HIDE DEF f
<1>2. /\ g \in LruMaps(BreakerKeys, Circuits)
      /\ Has(g, k) /\ Lookup(g, k) = x
      /\ \A j : j # k => (Has(g, j) <=> Has(f, j))
      /\ \A j : j # k /\ Has(f, j) => Lookup(g, j) = Lookup(f, j)
  BY <1>1, TouchMap, SMT
<1>. HIDE DEF g
<1>3. BreakerMaxKeys \in Nat \ {0}
  BY GuardsConstants
<1>4. /\ e \in LruMaps(BreakerKeys, Circuits)
      /\ \A j : Has(e, j) => Has(g, j) /\ Lookup(e, j) = Lookup(g, j)
  BY <1>2, <1>3, EvictLruMap
<1>5. e = Stored(d, k, x)
  BY DEF Stored, e, f, g
<1>. HIDE DEF e
<1>6. Has(e, k) => Lookup(e, k) = x
  BY <1>2, <1>4
<1>7. ASSUME NEW j, j # k, Has(e, j) PROVE Has(d, j) /\ Lookup(e, j) = Lookup(d, j)
  <2>1. Has(g, j) /\ Lookup(e, j) = Lookup(g, j)
    BY <1>4, <1>7
  <2>2. Has(f, j) /\ Lookup(g, j) = Lookup(f, j)
    BY <1>2, <1>7, <2>1
  <2>. QED BY <1>1, <2>1, <2>2
<1>. QED BY <1>4, <1>5, <1>6, <1>7

CircuitsInv ==
    /\ clock \in Nat
    /\ circuits \in LruMaps(BreakerKeys, Circuits)
    /\ \A k : Has(circuits, k) => CircuitOk(Lookup(circuits, k), clock)

\* The circuit a method works on: the one in the map, touched, or a new one.
LEMMA GotFacts ==
    ASSUME CircuitsInv, NEW k
    PROVE  LET g == GetOrCreate(circuits, k)
               c == Lookup(circuits, k)
               known == Has(Forgotten(circuits), k)
           IN
           /\ CircuitOk(g, clock)
           /\ known => /\ Has(circuits, k) /\ Lookup(Forgotten(circuits), k) = c
                       /\ g.state = c.state /\ g.failures = c.failures /\ g.opened_at = c.opened_at
           /\ ~known => g.state = "closed" /\ g.failures = <<>>
<1>. DEFINE g == GetOrCreate(circuits, k)
            c == Lookup(circuits, k)
<1>1. clock \in Nat /\ circuits \in LruMaps(BreakerKeys, Circuits)
  BY DEF CircuitsInv
<1>2. CASE Has(Forgotten(circuits), k)
  <2>1. Has(circuits, k) /\ Lookup(Forgotten(circuits), k) = c
    BY <1>1, <1>2, ForgottenFacts
  <2>2. CircuitOk(c, clock)
    BY <2>1 DEF CircuitsInv
  <2>. DEFINE x == [c EXCEPT !.last_seen = clock]
  <2>3. g = x
    BY <1>2, <2>1 DEF GetOrCreate
  <2>. HIDE DEF c
  <2>4. CircuitOk(x, clock) /\ x.state = c.state /\ x.failures = c.failures /\ x.opened_at = c.opened_at
    BY <1>1, <2>2, SeenFacts
  <2>. HIDE DEF x, g
  <2>5. CircuitOk(g, clock) /\ g.state = c.state /\ g.failures = c.failures /\ g.opened_at = c.opened_at
    BY <2>3, <2>4
  <2>. QED BY <1>2, <2>1, <2>5 DEF g, c
<1>3. CASE ~Has(Forgotten(circuits), k)
  <2>1. g = NewCircuit(clock)
    BY <1>3 DEF GetOrCreate
  <2>2. CircuitOk(NewCircuit(clock), clock)
    BY <1>1, NewCircuitOk
  <2>3. NewCircuit(clock).state = "closed" /\ NewCircuit(clock).failures = <<>>
    BY SMT DEF NewCircuit
  <2>. QED BY <1>3, <2>1, <2>2, <2>3
<1>. QED BY <1>2, <1>3

LEMMA StoringKeepsCircuits ==
    ASSUME CircuitsInv, NEW k \in BreakerKeys, NEW x, CircuitOk(x, clock),
           circuits' = Stored(circuits, k, x), UNCHANGED clock
    PROVE  CircuitsInv'
<1>1. x \in Circuits /\ circuits \in LruMaps(BreakerKeys, Circuits)
  BY DEF CircuitOk, CircuitsInv
<1>2. /\ circuits' \in LruMaps(BreakerKeys, Circuits)
      /\ Has(circuits', k) => Lookup(circuits', k) = x
      /\ \A j : j # k /\ Has(circuits', j) => Has(circuits, j) /\ Lookup(circuits', j) = Lookup(circuits, j)
  BY <1>1, StoredFacts, ZenonT(60)
<1>3. ASSUME NEW j, Has(circuits', j) PROVE CircuitOk(Lookup(circuits', j), clock)
  <2>1. CASE j = k
    BY <1>2, <1>3, <2>1
  <2>2. CASE j # k
    BY <1>2, <1>3, <2>2 DEF CircuitsInv
  <2>. QED BY <2>1, <2>2
<1>. QED BY <1>2, <1>3 DEF CircuitsInv

LEMMA KeysInUse ==
    ASSUME NEW c \in Callers
    PROVE  GuardKey(c) \in BreakerKeys /\ RecordKey(c) \in BreakerKeys
  BY DEF BreakerKeys

\* What the chain leaves of the breaker, and what it tells the history.
LEMMA EvaluateIs ==
    ASSUME NEW c \in Callers, NEW approved
    PROVE  LET e == Evaluate(c, approved)
               a == allow_call(GetOrCreate(circuits, GuardKey(c)), clock)
           IN  /\ e.circuit = a.circuit
               /\ e.state = IF e.consulted /\ a.decision.allowed THEN a.decision.state ELSE "none"
  BY DEF Evaluate, Combined

LEMMA EvaluateKeepsCircuits ==
    ASSUME CircuitsInv, NEW c \in Callers, NEW approved, EvaluateGuards(c, Evaluate(c, approved)),
           UNCHANGED clock
    PROVE  CircuitsInv'
<1>. DEFINE e == Evaluate(c, approved)
            k == GuardKey(c)
            a == allow_call(GetOrCreate(circuits, k), clock)
<1>1. circuits' = IF e.consulted THEN Stored(circuits, k, e.circuit) ELSE circuits
  BY DEF EvaluateGuards
<1>2. e.circuit = a.circuit
  BY EvaluateIs
<1>3. clock \in Nat /\ CircuitOk(GetOrCreate(circuits, k), clock)
  BY GotFacts DEF CircuitsInv
<1>4. CircuitOk(a.circuit, clock)
  BY <1>3, AllowOk
<1>5. k \in BreakerKeys
  BY KeysInUse
<1>. HIDE DEF e, k, a
<1>6. CASE e.consulted
  <2>1. circuits' = Stored(circuits, k, a.circuit)
    BY <1>1, <1>2, <1>6
  <2>. QED BY <1>4, <1>5, <2>1, StoringKeepsCircuits
<1>7. CASE ~e.consulted
  BY <1>1, <1>7 DEF CircuitsInv
<1>. QED BY <1>6, <1>7

LEMMA RecordKeepsCircuits == ASSUME CircuitsInv, NEW c \in Callers, RecordResult(c) PROVE CircuitsInv'
<1>. DEFINE k == RecordKey(c)
            g == GetOrCreate(circuits, k)
            ok == result[c] = "ok"
            x == record_result(g, ok, clock)
<1>1. circuits' = Stored(circuits, k, x) /\ clock' = clock
  BY DEF RecordResult
<1>2. clock \in Nat /\ CircuitOk(g, clock)
  BY GotFacts DEF CircuitsInv
<1>3. ok \in BOOLEAN
  OBVIOUS
<1>4. k \in BreakerKeys
  BY KeysInUse
<1>. HIDE DEF ok, g, k
<1>5. CircuitOk(x, clock)
  BY <1>2, <1>3, RecordFacts
<1>. HIDE DEF x
<1>. QED BY <1>1, <1>4, <1>5, StoringKeepsCircuits

LEMMA CircuitsInvInit == GuardsInit => CircuitsInv
<1>. SUFFICES ASSUME GuardsInit PROVE CircuitsInv
  OBVIOUS
<1>. QED BY SMT DEF GuardsInit, CircuitsInv, LruMaps, Has

LEMMA TickKeepsCircuits == ASSUME CircuitsInv, Tick PROVE CircuitsInv'
<1>1. clock \in Nat /\ clock' = clock + 1 /\ circuits' = circuits
  BY DEF CircuitsInv, Tick
<1>2. clock' \in Nat /\ clock <= clock'
  BY <1>1, SMT
<1>3. ASSUME NEW k, Has(circuits, k) PROVE CircuitOk(Lookup(circuits, k), clock')
  <2>1. CircuitOk(Lookup(circuits, k), clock)
    BY <1>3 DEF CircuitsInv
  <2>. QED BY <1>1, <1>2, <2>1, OkLater
<1>. QED BY <1>1, <1>2, <1>3 DEF CircuitsInv

LEMMA CircuitsInvStep == ASSUME CircuitsInv, [GuardsNext]_guards_vars PROVE CircuitsInv'
<1>1. ASSUME UNCHANGED <<clock, circuits>> PROVE CircuitsInv'
  BY <1>1 DEF CircuitsInv
<1>2. ASSUME NEW c \in Callers,
             \/ UseCachedSuccess(c) \/ CheckGuards(c) \/ CheckGuardsApproved(c)
      PROVE  CircuitsInv'
  <2>1. PICK approved : EvaluateGuards(c, Evaluate(c, approved)) /\ UNCHANGED clock
    BY <1>2 DEF UseCachedSuccess, CheckGuards, CheckGuardsApproved
  <2>. QED BY <2>1, EvaluateKeepsCircuits
<1>3. ASSUME NEW c \in Callers,
             \/ Begin(c) \/ acquire(c) \/ CancelWait(c) \/ FindApproval(c)
             \/ (\E r \in {"ok", "failed", "raised"} : RunTool(c, r))
             \/ release(c)
      PROVE  UNCHANGED <<clock, circuits>>
  BY <1>3 DEF Begin, acquire, CancelWait, FindApproval, RunTool, release
<1>4. ASSUME NEW c \in Callers, RecordResult(c) PROVE CircuitsInv'
  BY <1>4, RecordKeepsCircuits
<1>5. CASE UNCHANGED guards_vars
  BY <1>1, <1>5 DEF guards_vars
<1>6. CASE Tick
  BY <1>6, TickKeepsCircuits
<1>. QED BY <1>1, <1>2, <1>3, <1>4, <1>5, <1>6 DEF GuardsNext

\* On every circuit a process can come to hold, the Lua scripts give the answer of the in-memory
\* breaker and leave the same circuit, for every threshold, window, cooldown and number of
\* probes (redis_circuit_breaker_lua.py against in_memory.py).
THEOREM ScriptsMatchMemory == GuardsSpec => []LuaMatchesMemory
<1>1. CircuitsInv => LuaMatchesMemory
  <2>. SUFFICES ASSUME CircuitsInv, NEW i \in DOMAIN circuits
                PROVE  LET c == circuits[i].val
                           a == allow_call(c, clock)
                           lua == ALLOW_CALL_LUA(HashOf(c), clock)
                       IN  /\ lua.decision = a.decision
                           /\ SameCircuit(lua.hash, a.circuit)
                           /\ \A ok \in BOOLEAN :
                                SameCircuit(RECORD_RESULT_LUA(HashOf(c), ok, clock),
                                            record_result(c, ok, clock))
    BY DEF LuaMatchesMemory
  <2>. DEFINE c == circuits[i].val
  <2>1. clock \in Nat /\ circuits \in LruMaps(BreakerKeys, Circuits)
    BY DEF CircuitsInv
  <2>2. Has(circuits, circuits[i].key) /\ Lookup(circuits, circuits[i].key) = c
    BY <2>1, PlaceFacts, SMT
  <2>3. CircuitOk(c, clock)
    BY <2>2 DEF CircuitsInv
  <2>. HIDE DEF c
  <2>4. LET a == allow_call(c, clock)
            lua == ALLOW_CALL_LUA(HashOf(c), clock)
        IN  lua.decision = a.decision /\ SameCircuit(lua.hash, a.circuit)
    BY <2>1, <2>3, AllowMatches
  <2>5. \A ok \in BOOLEAN :
          SameCircuit(RECORD_RESULT_LUA(HashOf(c), ok, clock), record_result(c, ok, clock))
    BY <2>1, <2>3, RecordMatches
  <2>. QED BY <2>4, <2>5 DEF c
<1>. QED BY <1>1, CircuitsInvInit, CircuitsInvStep, PTL DEF GuardsSpec

----------------------------------------------------------------------------
(* The breaker fails fast                                                    *)

\* What the circuit c has kept of the failures f reported since it recovered: a closed circuit
\* the last of them, all that the window still covers, and fewer than it trips at; an open one
\* opened no earlier than the last of them.
Remembers(c, f, now) ==
    /\ c.state = "closed" =>
         /\ Len(c.failures) < FailureThreshold
         /\ \E m \in 0..Len(f) :
              /\ Len(f) = m + Len(c.failures)
              /\ \A i \in DOMAIN c.failures : c.failures[i] = f[m + i]
              /\ \A i \in DOMAIN f : i <= m => f[i] < now - Window
    /\ c.state = "open" => f # <<>> /\ f[Len(f)] <= c.opened_at

\* The same of the failures alone: g is the end of f.
EndOf(g, f, now) ==
    \E m \in 0..Len(f) :
        /\ Len(f) = m + Len(g)
        /\ \A i \in DOMAIN g : g[i] = f[m + i]
        /\ \A i \in DOMAIN f : i <= m => f[i] < now - Window

LEMMA RemembersIs ==
    ASSUME NEW c, NEW f, NEW now
    PROVE  Remembers(c, f, now) <=>
             /\ c.state = "closed" => Len(c.failures) < FailureThreshold /\ EndOf(c.failures, f, now)
             /\ c.state = "open" => f # <<>> /\ f[Len(f)] <= c.opened_at
  BY DEF Remembers, EndOf

LEMMA EndOfNone == ASSUME NEW now PROVE EndOf(<<>>, <<>>, now)
<1>1. /\ 0 \in 0..Len(<<>>) /\ Len(<<>>) = 0 + Len(<<>>)
      /\ \A i : i \notin DOMAIN <<>>
  BY SMT
<1>. QED BY <1>1 DEF EndOf

LEMMA EndOfLater ==
    ASSUME NEW g, NEW f \in Seq(Nat), NEW now \in Nat, NEW later \in Nat, now <= later,
           EndOf(g, f, now)
    PROVE  EndOf(g, f, later)
<1>1. PICK m \in 0..Len(f) : /\ Len(f) = m + Len(g)
                             /\ \A i \in DOMAIN g : g[i] = f[m + i]
                             /\ \A i \in DOMAIN f : i <= m => f[i] < now - Window
  BY DEF EndOf
<1>2. ASSUME NEW i \in DOMAIN f, i <= m PROVE f[i] < later - Window
  <2>1. f[i] \in Nat /\ f[i] < now - Window /\ Window \in Nat
    BY <1>1, <1>2, ElementsOf, CircuitBreakerSpec
  <2>. QED BY <2>1, SMT
<1>. QED BY <1>1, <1>2 DEF EndOf

LEMMA EndOfPruned ==
    ASSUME NEW g \in Seq(Nat), NEW f \in Seq(Nat), NEW now \in Nat, EndOf(g, f, now),
           NEW h, Pruned(h, g, now)
    PROVE  EndOf(h, f, now)
<1>1. PICK m \in 0..Len(f) : /\ Len(f) = m + Len(g)
                             /\ \A i \in DOMAIN g : g[i] = f[m + i]
                             /\ \A i \in DOMAIN f : i <= m => f[i] < now - Window
  BY DEF EndOf
<1>2. PICK a \in 1..Len(g) + 1 : /\ h = SubSeq(g, a, Len(g))
                                 /\ \A i \in DOMAIN g : a <= i <=> g[i] >= now - Window
  BY DEF Pruned
<1>. DEFINE n == m + a - 1
<1>6. /\ Len(h) = Len(g) - a + 1 /\ DOMAIN h = 1..Len(h)
      /\ \A i \in DOMAIN h : h[i] = g[a - 1 + i] /\ a - 1 + i \in DOMAIN g
  BY <1>2, SMT
<1>7. Len(g) \in Nat /\ Len(f) \in Nat
  BY SMT
<1>3. n \in 0..Len(f) /\ Len(f) = n + Len(h)
  BY <1>1, <1>6, <1>7, SMT
<1>4. ASSUME NEW i \in DOMAIN h PROVE h[i] = f[n + i]
  <2>1. h[i] = g[a - 1 + i] /\ a - 1 + i \in DOMAIN g
    BY <1>6, <1>4
  <2>2. m + (a - 1 + i) = n + i
    BY <1>6, <1>4, SMT
  <2>. HIDE DEF n
  <2>. QED BY <1>1, <2>1, <2>2
<1>5. ASSUME NEW i \in DOMAIN f, i <= n PROVE f[i] < now - Window
  <2>1. CASE i <= m
    BY <1>1, <1>5, <2>1
  <2>2. CASE ~(i <= m)
    <3>1. i - m \in DOMAIN g /\ ~(a <= i - m) /\ m + (i - m) = i
      BY <1>1, <1>2, <1>5, <2>2, SMT
    <3>2. g[i - m] = f[i] /\ ~(g[i - m] >= now - Window)
      BY <1>1, <1>2, <3>1
    <3>3. f[i] \in Nat /\ Window \in Nat
      BY <1>5, ElementsOf, CircuitBreakerSpec
    <3>. QED BY <3>2, <3>3, SMT
  <2>. QED BY <2>1, <2>2
<1>. HIDE DEF n
<1>. QED BY <1>3, <1>4, <1>5 DEF EndOf

LEMMA EndOfAppended ==
    ASSUME NEW g \in Seq(Nat), NEW f \in Seq(Nat), NEW now \in Nat, EndOf(g, f, now)
    PROVE  EndOf(Append(g, now), Append(f, now), now)
<1>1. PICK m \in 0..Len(f) : /\ Len(f) = m + Len(g)
                             /\ \A i \in DOMAIN g : g[i] = f[m + i]
                             /\ \A i \in DOMAIN f : i <= m => f[i] < now - Window
  BY DEF EndOf
<1>. DEFINE h == Append(g, now)
            e == Append(f, now)
<1>2. m \in 0..Len(e) /\ Len(e) = m + Len(h)
  BY <1>1, SMT
<1>3. ASSUME NEW i \in DOMAIN h PROVE h[i] = e[m + i]
  <2>1. CASE i \in DOMAIN g
    <3>1. h[i] = g[i] /\ e[m + i] = f[m + i]
      BY <1>1, <2>1, SMTT(60)
    <3>. QED BY <1>1, <2>1, <3>1
  <2>2. CASE i \notin DOMAIN g
    BY <1>1, <1>3, <2>2, SMT
  <2>. QED BY <2>1, <2>2
<1>4. ASSUME NEW i \in DOMAIN e, i <= m PROVE e[i] < now - Window
  <2>1. i \in DOMAIN f /\ e[i] = f[i]
    BY <1>1, <1>4, SMT
  <2>. QED BY <1>1, <1>4, <2>1
<1>. HIDE DEF h, e
<1>5. EndOf(h, e, now)
  BY <1>2, <1>3, <1>4 DEF EndOf
<1>. QED BY <1>5 DEF h, e

LEMMA Shift == \A a, b, c \in Int : a + (b + c) = a + b + c
  BY SMT

\* Forgetting all but the latest failures forgets nothing the circuit keeps.
LEMMA EndOfLatest ==
    ASSUME NEW g \in Seq(Nat), NEW f \in Seq(Nat), NEW now \in Nat, EndOf(g, f, now),
           Len(g) < FailureThreshold
    PROVE  EndOf(g, Latest(f), now)
<1>. DEFINE e == SubSeq(f, Len(f) - FailureThreshold + 1, Len(f))
<1>1. CASE Len(f) <= FailureThreshold
  BY <1>1 DEF Latest
<1>2. CASE ~(Len(f) <= FailureThreshold)
  <2>1. Latest(f) = e
    BY <1>2 DEF Latest
  <2>2. PICK m \in 0..Len(f) : /\ Len(f) = m + Len(g)
                               /\ \A i \in DOMAIN g : g[i] = f[m + i]
                               /\ \A i \in DOMAIN f : i <= m => f[i] < now - Window
    BY DEF EndOf
  <2>. DEFINE d == Len(f) - FailureThreshold
              n == FailureThreshold - Len(g)
  <2>3. FailureThreshold \in Nat /\ d \in Nat /\ Len(e) = FailureThreshold /\ DOMAIN e = 1..Len(e)
    BY <1>2, CircuitBreakerSpec, SMT
  <2>4. n \in 0..Len(e) /\ Len(e) = n + Len(g) /\ d + n = m
    BY <2>2, <2>3, SMT
  <2>5. ASSUME NEW i \in DOMAIN e PROVE e[i] = f[d + i] /\ d + i \in DOMAIN f
    BY <1>2, <2>3, <2>5, SMT
  <2>6. ASSUME NEW i \in DOMAIN g PROVE g[i] = e[n + i]
    <3>3. Len(f) \in Nat /\ Len(g) \in Nat /\ DOMAIN g = 1..Len(g)
      BY SMT
    <3>4. i \in 1..Len(g)
      BY <2>6, <3>3
    <3>. HIDE DEF e, d
    <3>5. n + i \in 1..FailureThreshold
      BY <2>3, <2>4, <3>3, <3>4, SMT
    <3>6. d + (n + i) = m + i
      <4>1. d \in Int /\ n \in Int /\ i \in Int /\ d + n = m
        BY <2>3, <2>4, <3>3, <3>4, SMT
      <4>. HIDE DEF n
      <4>. QED BY <4>1, Shift
    <3>1. n + i \in DOMAIN e /\ d + (n + i) = m + i
      BY <2>3, <3>5, <3>6
    <3>2. g[i] = f[m + i]
      BY <2>2, <2>6
    <3>. HIDE DEF e, d, n
    <3>. QED BY <2>5, <3>1, <3>2
  <2>7. ASSUME NEW i \in DOMAIN e, i <= n PROVE e[i] < now - Window
    <3>1. d + i <= m
      BY <2>3, <2>4, <2>7, SMT
    <3>. HIDE DEF e, d, n
    <3>. QED BY <2>2, <2>5, <2>7, <3>1
  <2>. HIDE DEF e, d, n
  <2>8. EndOf(g, e, now)
    BY <2>4, <2>6, <2>7 DEF EndOf
  <2>. QED BY <2>1, <2>8
<1>. QED BY <1>1, <1>2

LEMMA LatestFacts ==
    ASSUME NEW f \in Seq(Nat)
    PROVE  /\ Latest(f) \in Seq(Nat)
           /\ f # <<>> => Latest(f) # <<>> /\ Latest(f)[Len(Latest(f))] = f[Len(f)]
<1>. DEFINE d == Len(f) - FailureThreshold
            e == SubSeq(f, d + 1, Len(f))
<1>1. Len(f) \in Nat /\ FailureThreshold \in Nat \ {0}
  BY CircuitBreakerSpec, SMT
<1>2. CASE Len(f) <= FailureThreshold
  BY <1>2 DEF Latest
<1>3. CASE ~(Len(f) <= FailureThreshold)
  <2>1. Latest(f) = e
    BY <1>3 DEF Latest
  <2>2. d \in Nat /\ d + 1 \in 1..Len(f) + 1 /\ d + FailureThreshold = Len(f)
    BY <1>1, <1>3, SMT
  <2>. HIDE DEF d
  <2>3. /\ e \in Seq(Nat) /\ Len(e) = Len(f) - (d + 1) + 1
        /\ \A i \in 1..Len(f) - (d + 1) + 1 : e[i] = f[i + (d + 1) - 1]
    BY <2>2, SuffixFacts
  <2>4. /\ Len(f) - (d + 1) + 1 = FailureThreshold /\ FailureThreshold \in 1..FailureThreshold
        /\ FailureThreshold + (d + 1) - 1 = Len(f)
    BY <1>1, <2>2, SMT
  <2>. HIDE DEF e
  <2>5. Len(e) = FailureThreshold /\ e[Len(e)] = f[Len(f)]
    BY <2>3, <2>4
  <2>6. e # <<>>
    BY <1>1, <2>5, SMT
  <2>. QED BY <2>1, <2>3, <2>5, <2>6
<1>. QED BY <1>2, <1>3

LEMMA RemembersLatest ==
    ASSUME NEW now \in Nat, NEW c, CircuitOk(c, now), NEW f \in Seq(Nat), Remembers(c, f, now)
    PROVE  Remembers(c, Latest(f), now)
<1>1. c.failures \in Seq(Nat)
  BY CircuitFields DEF CircuitOk
<1>2. c.state = "closed" => Len(c.failures) < FailureThreshold /\ EndOf(c.failures, Latest(f), now)
  BY <1>1, EndOfLatest, RemembersIs
<1>3. c.state = "open" => Latest(f) # <<>> /\ Latest(f)[Len(Latest(f))] <= c.opened_at
  BY LatestFacts, RemembersIs
<1>. QED BY <1>2, <1>3, RemembersIs

LEMMA RemembersPruned ==
    ASSUME NEW now \in Nat, NEW c, CircuitOk(c, now), NEW f \in Seq(Nat), Remembers(c, f, now)
    PROVE  Remembers(prune_failures(c, now), f, now)
<1>. DEFINE p == prune_failures(c, now)
<1>1. /\ CircuitOk(p, now) /\ Pruned(p.failures, c.failures, now)
      /\ p.state = c.state /\ p.opened_at = c.opened_at
  BY PruneFacts
<1>2. c.failures \in Seq(Nat) /\ p.failures \in Seq(Nat)
  BY <1>1, CircuitFields DEF CircuitOk
<1>3. Sorted(c.failures) /\ \A i \in DOMAIN c.failures : c.failures[i] <= now
  BY DEF CircuitOk
<1>. HIDE DEF p
<1>4. Len(p.failures) <= Len(c.failures)
  BY <1>1, <1>2, <1>3, PrunedFacts
<1>5. ASSUME c.state = "closed" PROVE Len(p.failures) < FailureThreshold /\ EndOf(p.failures, f, now)
  <2>1. Len(c.failures) < FailureThreshold /\ EndOf(c.failures, f, now)
    BY <1>5, RemembersIs
  <2>2. EndOf(p.failures, f, now)
    BY <1>1, <1>2, <2>1, EndOfPruned
  <2>3. FailureThreshold \in Nat
    BY CircuitBreakerSpec
  <2>4. Len(p.failures) < FailureThreshold
    BY <1>2, <1>4, <2>1, <2>3, SMT
  <2>. QED BY <2>2, <2>4
<1>6. Remembers(p, f, now)
  BY <1>1, <1>5, RemembersIs
<1>. QED BY <1>6 DEF p

LEMMA PermitState ==
    ASSUME NEW now \in Nat, NEW c, CircuitOk(c, now), c.state = "half_open"
    PROVE  TakePermit(c).circuit.state = "half_open" /\ TakePermit(c).decision.state = "half_open"
<1>. DEFINE x == [c EXCEPT !.half_open_in_flight = @ + 1]
<1>1. c \in Circuits
  BY DEF CircuitOk
<1>2. x.state = "half_open"
  BY <1>1, SMT DEF Circuits
<1>. HIDE DEF x
<1>3. TakePermit(c).decision.state = "half_open"
  BY DEF TakePermit, Decision
<1>4. TakePermit(c).circuit.state = "half_open"
  BY <1>2 DEF TakePermit, x
<1>. QED BY <1>3, <1>4

\* allow_call keeps the failures it was told of, lets calls through a closed circuit only when it
\* is closed, and probes an open one only after the cooldown.
LEMMA AllowRemembers ==
    ASSUME NEW now \in Nat, NEW c, CircuitOk(c, now), NEW f \in Seq(Nat), Remembers(c, f, now)
    PROVE  LET a == allow_call(c, now) IN
           /\ Remembers(a.circuit, f, now)
           /\ a.decision.state = "closed" => c.state = "closed"
           /\ a.decision.state = "half_open" /\ c.state = "open" => c.opened_at + OpenCooldown - now <= 0
<1>. DEFINE a == allow_call(c, now)
            p == prune_failures(c, now)
            h == half_open(p)
            remaining == c.opened_at + OpenCooldown - now
<1>1. CircuitOk(p, now) /\ p.state = c.state
  BY PruneFacts
<1>2. Remembers(p, f, now)
  BY RemembersPruned
<1>3. CASE c.state = "open" /\ remaining > 0
  <2>1. a.circuit = p /\ a.decision = Decision(FALSE, "open", remaining)
    BY <1>3, AllowFacts
  <2>2. Decision(FALSE, "open", remaining).state = "open"
    BY DEF Decision
  <2>. HIDE DEF a, p, remaining
  <2>. QED BY <1>2, <2>1, <2>2 DEF a
<1>4. CASE c.state = "open" /\ ~(remaining > 0)
  <2>1. remaining <= 0 /\ a = TakePermit(h)
    BY <1>4, AllowFacts
  <2>2. CircuitOk(h, now) /\ h.state = "half_open"
    BY <1>1, HalfOpenFacts
  <2>. HIDE DEF h, p
  <2>3. a.circuit.state = "half_open" /\ a.decision.state = "half_open"
    BY <2>1, <2>2, PermitState
  <2>4. Remembers(a.circuit, f, now)
    BY <2>3, RemembersIs
  <2>. QED BY <2>1, <2>3, <2>4
<1>5. CASE c.state = "half_open"
  <2>1. a = TakePermit(p)
    BY <1>5, AllowFacts
  <2>. HIDE DEF p
  <2>3. a.circuit.state = "half_open" /\ a.decision.state = "half_open"
    BY <1>1, <1>5, <2>1, PermitState
  <2>4. Remembers(a.circuit, f, now)
    BY <2>3, RemembersIs
  <2>. QED BY <1>5, <2>3, <2>4
<1>6. CASE c.state = "closed"
  <2>1. Len(p.failures) < FailureThreshold
    BY <1>1, <1>2, <1>6, RemembersIs
  <2>2. p.failures \in Seq(Nat) /\ FailureThreshold \in Nat
    BY <1>1, CircuitFields, CircuitBreakerSpec DEF CircuitOk
  <2>3. ~(Len(p.failures) >= FailureThreshold)
    <3>. HIDE DEF p
    <3>. QED BY <2>1, <2>2, SMT
  <2>4. a.circuit = p
    BY <1>6, <2>3, AllowFacts
  <2>. QED BY <1>2, <1>6, <2>4
<1>7. c.state \in {"closed", "open", "half_open"}
  BY CircuitFields DEF CircuitOk
<1>. QED BY <1>3, <1>4, <1>5, <1>6, <1>7

\* The failures reported since the circuit c recovered, once ok has been reported to it.
Reported(c, r, f, ok, now) ==
    IF c.state = "half_open" /\ r.state = "closed" THEN <<>>
    ELSE IF ok THEN f ELSE Append(f, now)

LEMMA RecordRemembers ==
    ASSUME NEW now \in Nat, NEW c, CircuitOk(c, now), NEW ok \in BOOLEAN, NEW f \in Seq(Nat),
           Remembers(c, f, now)
    PROVE  LET r == record_result(c, ok, now)
               e == Reported(c, r, f, ok, now)
           IN  Remembers(r, e, now) /\ e \in Seq(Nat)
<1>. DEFINE r == record_result(c, ok, now)
            p == prune_failures(c, now)
            q == Failing(p, now)
            g == Append(f, now)
<1>1. /\ CircuitOk(p, now) /\ p.state = c.state /\ Remembers(p, f, now)
  BY PruneFacts, RemembersPruned
<1>2. g \in Seq(Nat) /\ g # <<>> /\ g[Len(g)] = now /\ now <= now /\ <<>> \in Seq(Nat)
  BY SMT
<1>. HIDE DEF p, r, g
<1>3. CASE ~ok /\ r.state = "open" /\ r.opened_at = now
  <2>1. Reported(c, r, f, ok, now) = g
    BY <1>3 DEF Reported, g
  <2>2. Remembers(r, g, now)
    BY <1>2, <1>3, RemembersIs
  <2>. QED BY <1>2, <2>1, <2>2 DEF r
<1>4. CASE ok /\ r = p /\ c.state # "half_open"
  <2>1. Reported(c, r, f, ok, now) = f
    BY <1>4 DEF Reported
  <2>. QED BY <1>1, <1>4, <2>1 DEF r
<1>5. CASE c.state = "half_open"
  <2>1. CASE ~ok
    <3>1. r = open(p, now)
      BY <1>5, <2>1, RecordFacts DEF r, p
    <3>2. open(p, now).state = "open" /\ open(p, now).opened_at = now
      BY <1>1, OpenFacts
    <3>. QED BY <1>3, <2>1, <3>1, <3>2
  <2>2. CASE ok /\ c.half_open_successes + 1 >= SuccessThreshold
    <3>1. r.state = "closed" /\ r.failures = <<>>
      BY <1>5, <2>2, RecordFacts DEF r
    <3>2. Reported(c, r, f, ok, now) = <<>>
      BY <1>5, <3>1 DEF Reported
    <3>3. Len(<<>>) < FailureThreshold
      BY CircuitBreakerSpec, SMT
    <3>4. Remembers(r, <<>>, now)
      BY <3>1, <3>3, EndOfNone, RemembersIs
    <3>. QED BY <1>2, <3>2, <3>4 DEF r
  <2>3. CASE ok /\ ~(c.half_open_successes + 1 >= SuccessThreshold)
    <3>1. r.state = "half_open"
      BY <1>5, <2>3, RecordCounted DEF r
    <3>2. Reported(c, r, f, ok, now) = f
      BY <2>3, <3>1 DEF Reported
    <3>3. Remembers(r, f, now)
      BY <3>1, RemembersIs
    <3>. QED BY <3>2, <3>3 DEF r
  <2>. QED BY <2>1, <2>2, <2>3
<1>6. CASE c.state = "open"
  <2>1. CASE ok
    <3>1. r = p
      BY <1>6, <2>1, RecordFacts DEF r, p
    <3>. QED BY <1>4, <1>6, <2>1, <3>1
  <2>2. CASE ~ok
    <3>1. r.state = "open" /\ r.opened_at = now
      BY <1>6, <2>2, RecordReopened DEF r
    <3>. QED BY <1>3, <2>2, <3>1
  <2>. QED BY <2>1, <2>2
<1>7. CASE c.state = "closed"
  <2>1. CASE ok
    <3>1. r = p
      BY <1>7, <2>1, RecordFacts DEF r, p
    <3>. QED BY <1>4, <1>7, <2>1, <3>1
  <2>2. CASE ~ok /\ Len(q.failures) >= FailureThreshold
    <3>1. r = open(q, now)
      BY <1>7, <2>2, RecordFacts DEF r, p
    <3>2. CircuitOk(q, now)
      BY <1>1, <1>7, FailingFacts
    <3>. HIDE DEF q
    <3>3. open(q, now).state = "open" /\ open(q, now).opened_at = now
      BY <3>2, OpenFacts
    <3>. QED BY <1>3, <2>2, <3>1, <3>3
  <2>3. CASE ~ok /\ ~(Len(q.failures) >= FailureThreshold)
    <3>1. r = q
      BY <1>7, <2>3, RecordFacts, ZenonT(60) DEF r, p
    <3>2. /\ CircuitOk(q, now) /\ q.state = "closed"
          /\ Pruned(q.failures, Append(p.failures, now), now)
      BY <1>1, <1>7, FailingFacts
    <3>. HIDE DEF q
    <3>3. p.failures \in Seq(Nat) /\ q.failures \in Seq(Nat)
      BY <1>1, <3>2, CircuitFields DEF CircuitOk
    <3>4. EndOf(Append(p.failures, now), g, now) /\ Append(p.failures, now) \in Seq(Nat)
      <4>1. EndOf(p.failures, f, now)
        BY <1>1, <1>7, RemembersIs
      <4>2. EndOf(Append(p.failures, now), Append(f, now), now)
        BY <3>3, <4>1, EndOfAppended
      <4>3. Append(p.failures, now) \in Seq(Nat)
        BY <3>3, SMT
      <4>. QED BY <4>2, <4>3 DEF g
    <3>5. EndOf(q.failures, g, now)
      BY <1>2, <3>2, <3>4, EndOfPruned
    <3>6. Len(q.failures) < FailureThreshold
      BY <2>3, <3>3, CircuitBreakerSpec, SMT
    <3>7. Remembers(q, g, now)
      BY <3>2, <3>5, <3>6, RemembersIs
    <3>8. Reported(c, r, f, ok, now) = g
      BY <1>7, <2>3 DEF Reported, g
    <3>. QED BY <1>2, <3>1, <3>7, <3>8 DEF r
  <2>. QED BY <2>1, <2>2, <2>3
<1>8. c.state \in {"closed", "open", "half_open"}
  BY CircuitFields DEF CircuitOk
<1>. QED BY <1>5, <1>6, <1>7, <1>8

\* At most the failures a closed circuit keeps are in the window.
LEMMA RecentFew ==
    ASSUME NEW now \in Nat, NEW g \in Seq(Nat), NEW f \in Seq(Nat), EndOf(g, f, now),
           Len(g) < FailureThreshold
    PROVE  Cardinality({i \in DOMAIN f : f[i] >= now - Window}) < FailureThreshold
<1>. DEFINE S == {i \in DOMAIN f : f[i] >= now - Window}
<1>1. PICK m \in 0..Len(f) : /\ Len(f) = m + Len(g)
                             /\ \A i \in DOMAIN f : i <= m => f[i] < now - Window
  BY DEF EndOf
<1>. DEFINE T == m + 1..Len(f)
<1>2. Len(f) \in Nat /\ Len(g) \in Nat /\ m \in Nat /\ DOMAIN f = 1..Len(f) /\ FailureThreshold \in Nat
  BY CircuitBreakerSpec, SMT
<1>3. S \subseteq T
  <2>. SUFFICES ASSUME NEW i \in S PROVE i \in T
    OBVIOUS
  <2>1. i \in DOMAIN f /\ f[i] >= now - Window /\ f[i] \in Nat /\ Window \in Nat
    BY ElementsOf, CircuitBreakerSpec
  <2>2. ~(i <= m)
    <3>. SUFFICES ASSUME i <= m PROVE FALSE
      OBVIOUS
    <3>1. f[i] < now - Window
      BY <1>1, <2>1
    <3>. QED BY <2>1, <3>1, SMT
  <2>. QED BY <1>2, <2>1, <2>2, SMT
<1>4. IsFiniteSet(T) /\ Cardinality(T) = IF m + 1 > Len(f) THEN 0 ELSE Len(f) - (m + 1) + 1
  <2>1. m + 1 \in Int /\ Len(f) \in Int
    BY <1>2, SMT
  <2>. QED BY <2>1, FS_Interval
<1>5. Cardinality(T) = Len(g)
  BY <1>1, <1>2, <1>4, SMT
<1>. HIDE DEF S, T
<1>6. Cardinality(S) <= Cardinality(T) /\ IsFiniteSet(S)
  <2>1. S \in SUBSET T
    BY <1>3
  <2>. QED BY <1>4, <2>1, FS_Subset
<1>7. Cardinality(S) \in Nat
  BY <1>6, FS_CardinalityType
<1>8. Cardinality(S) < FailureThreshold
  BY <1>2, <1>5, <1>6, <1>7, SMT
<1>. QED BY <1>8 DEF S

BreakerInv ==
    /\ CircuitsInv
    /\ failed \in [BreakerKeys -> Seq(Nat)]
    /\ DOMAIN admitted = Callers
    /\ \A k \in BreakerKeys : Has(circuits, k) => Remembers(Lookup(circuits, k), failed[k], clock)

LEMMA GotRemembers ==
    ASSUME BreakerInv, NEW k \in BreakerKeys
    PROVE  Remembered(k) \in Seq(Nat) /\ Remembers(GetOrCreate(circuits, k), Remembered(k), clock)
<1>. DEFINE g == GetOrCreate(circuits, k)
            c == Lookup(circuits, k)
            known == Has(Forgotten(circuits), k)
<1>1. CircuitsInv /\ failed[k] \in Seq(Nat)
  BY DEF BreakerInv
<1>2. /\ known => /\ Has(circuits, k)
                  /\ g.state = c.state /\ g.failures = c.failures /\ g.opened_at = c.opened_at
      /\ ~known => g.state = "closed" /\ g.failures = <<>>
  BY <1>1, GotFacts
<1>3. Remembered(k) = IF known THEN failed[k] ELSE <<>>
  BY DEF Remembered
<1>. HIDE DEF g, c, known
<1>4. CASE known
  <2>1. Remembers(c, failed[k], clock)
    BY <1>2, <1>4 DEF BreakerInv, c
  <2>2. Remembers(g, failed[k], clock)
    BY <1>2, <1>4, <2>1, RemembersIs
  <2>. QED BY <1>1, <1>3, <1>4, <2>2 DEF g
<1>5. CASE ~known
  <2>1. <<>> \in Seq(Nat) /\ Len(<<>>) < FailureThreshold
    BY CircuitBreakerSpec, SMT
  <2>2. Remembers(g, <<>>, clock)
    BY <1>2, <1>5, <2>1, EndOfNone, RemembersIs
  <2>. QED BY <1>3, <1>5, <2>1, <2>2 DEF g
<1>. QED BY <1>4, <1>5

LEMMA StoringKeepsFailures ==
    ASSUME BreakerInv, NEW k \in BreakerKeys, NEW x, CircuitOk(x, clock), NEW f \in Seq(Nat),
           Remembers(x, f, clock), circuits' = Stored(circuits, k, x),
           failed' = FailuresAfter(circuits', k, f), UNCHANGED clock
    PROVE  /\ CircuitsInv'
           /\ failed' \in [BreakerKeys -> Seq(Nat)]
           /\ \A j \in BreakerKeys :
                Has(circuits', j) => Remembers(Lookup(circuits', j), failed'[j], clock)
<1>1. CircuitsInv /\ failed \in [BreakerKeys -> Seq(Nat)]
  BY DEF BreakerInv
<1>2. CircuitsInv'
  BY <1>1, StoringKeepsCircuits
<1>3. x \in Circuits /\ circuits \in LruMaps(BreakerKeys, Circuits) /\ clock \in Nat
  BY <1>1 DEF CircuitOk, CircuitsInv
<1>4. /\ Has(circuits', k) => Lookup(circuits', k) = x
      /\ \A j : j # k /\ Has(circuits', j) => Has(circuits, j) /\ Lookup(circuits', j) = Lookup(circuits, j)
  BY <1>3, StoredFacts, ZenonT(60)
<1>5. Latest(f) \in Seq(Nat) /\ Remembers(x, Latest(f), clock) /\ <<>> \in Seq(Nat)
  <2>1. Latest(f) \in Seq(Nat) /\ Remembers(x, Latest(f), clock)
    BY <1>3, LatestFacts, RemembersLatest
  <2>2. <<>> \in Seq(Nat)
    BY SMT
  <2>. QED BY <2>1, <2>2
<1>6. failed' = [j \in BreakerKeys |-> CASE ~Has(circuits', j) -> <<>>
                                         [] Has(circuits', j) /\ j = k -> Latest(f)
                                         [] OTHER -> failed[j]]
  BY DEF FailuresAfter
<1>7. ASSUME NEW j \in BreakerKeys
      PROVE  /\ ~Has(circuits', j) => failed'[j] = <<>>
             /\ Has(circuits', j) /\ j = k => failed'[j] = Latest(f)
             /\ Has(circuits', j) /\ j # k => failed'[j] = failed[j]
  <2>1. failed'[j] = CASE ~Has(circuits', j) -> <<>>
                       [] Has(circuits', j) /\ j = k -> Latest(f)
                       [] OTHER -> failed[j]
    BY <1>6
  <2>2. CASE ~Has(circuits', j)
    BY <2>1, <2>2
  <2>3. CASE Has(circuits', j) /\ j = k
    BY <2>1, <2>3
  <2>4. CASE Has(circuits', j) /\ j # k
    BY <2>1, <2>4
  <2>. QED BY <2>2, <2>3, <2>4
<1>8. ASSUME NEW j \in BreakerKeys PROVE failed'[j] \in Seq(Nat)
  <2>1. failed[j] \in Seq(Nat)
    BY <1>1
  <2>. QED BY <1>5, <1>7, <2>1
<1>9. failed' \in [BreakerKeys -> Seq(Nat)]
  BY <1>6, <1>8
<1>10. ASSUME NEW j \in BreakerKeys, Has(circuits', j)
       PROVE  Remembers(Lookup(circuits', j), failed'[j], clock)
  <2>1. CASE j = k
    BY <1>4, <1>5, <1>7, <1>10, <2>1
  <2>2. CASE j # k
    <3>1. Has(circuits, j) /\ Lookup(circuits', j) = Lookup(circuits, j) /\ failed'[j] = failed[j]
      BY <1>4, <1>7, <1>10, <2>2
    <3>. QED BY <3>1 DEF BreakerInv
  <2>. QED BY <2>1, <2>2
<1>. QED BY <1>2, <1>9, <1>10

LEMMA EvaluateKeepsBreaker ==
    ASSUME BreakerInv, NEW c \in Callers, NEW approved, EvaluateGuards(c, Evaluate(c, approved)),
           UNCHANGED clock, DOMAIN admitted' = Callers
    PROVE  BreakerInv'
<1>. DEFINE e == Evaluate(c, approved)
            k == GuardKey(c)
            g == GetOrCreate(circuits, k)
            a == allow_call(g, clock)
            f == Remembered(k)
<1>1. /\ circuits' = IF e.consulted THEN Stored(circuits, k, e.circuit) ELSE circuits
      /\ failed' = IF e.consulted THEN FailuresAfter(circuits', k, f) ELSE failed
  BY DEF EvaluateGuards
<1>2. e.circuit = a.circuit
  BY EvaluateIs
<1>3. CircuitsInv
  BY DEF BreakerInv
<1>4. clock \in Nat /\ CircuitOk(g, clock)
  BY <1>3, GotFacts DEF CircuitsInv
<1>5. k \in BreakerKeys
  BY KeysInUse
<1>6. f \in Seq(Nat) /\ Remembers(g, f, clock)
  BY <1>5, GotRemembers
<1>. HIDE DEF e, k, g, f
<1>7. CircuitOk(a.circuit, clock) /\ Remembers(a.circuit, f, clock)
  BY <1>4, <1>6, AllowOk, AllowRemembers
<1>. HIDE DEF a
<1>8. CASE e.consulted
  <2>1. circuits' = Stored(circuits, k, a.circuit) /\ failed' = FailuresAfter(circuits', k, f)
    BY <1>1, <1>2, <1>8
  <2>2. /\ CircuitsInv'
        /\ failed' \in [BreakerKeys -> Seq(Nat)]
        /\ \A j \in BreakerKeys :
             Has(circuits', j) => Remembers(Lookup(circuits', j), failed'[j], clock)
    BY <1>5, <1>6, <1>7, <2>1, StoringKeepsFailures
  <2>. QED BY <2>2 DEF BreakerInv
<1>9. CASE ~e.consulted
  BY <1>1, <1>9 DEF BreakerInv, CircuitsInv
<1>. QED BY <1>8, <1>9

LEMMA RecordKeepsBreaker == ASSUME BreakerInv, NEW c \in Callers, RecordResult(c) PROVE BreakerInv'
<1>. DEFINE k == RecordKey(c)
            g == GetOrCreate(circuits, k)
            ok == result[c] = "ok"
            x == record_result(g, ok, clock)
            f == Remembered(k)
            r == Reported(g, x, f, ok, clock)
<1>1. /\ circuits' = Stored(circuits, k, x) /\ clock' = clock
      /\ failed' = FailuresAfter(circuits', k, r)
      /\ admitted' = [admitted EXCEPT ![c] = "none"]
  BY DEF RecordResult, Reported
<1>2. CircuitsInv /\ DOMAIN admitted = Callers
  BY DEF BreakerInv
<1>3. clock \in Nat /\ CircuitOk(g, clock)
  BY <1>2, GotFacts DEF CircuitsInv
<1>4. ok \in BOOLEAN
  OBVIOUS
<1>5. k \in BreakerKeys
  BY KeysInUse
<1>6. f \in Seq(Nat) /\ Remembers(g, f, clock)
  BY <1>5, GotRemembers
<1>. HIDE DEF ok, g, k, f
<1>7. CircuitOk(x, clock) /\ Remembers(x, r, clock) /\ r \in Seq(Nat)
  BY <1>3, <1>4, <1>6, RecordFacts, RecordRemembers
<1>. HIDE DEF x, r
<1>8. /\ CircuitsInv'
      /\ failed' \in [BreakerKeys -> Seq(Nat)]
      /\ \A j \in BreakerKeys :
           Has(circuits', j) => Remembers(Lookup(circuits', j), failed'[j], clock)
  BY <1>1, <1>5, <1>7, StoringKeepsFailures
<1>9. DOMAIN admitted' = Callers
  BY <1>1, <1>2
<1>. QED BY <1>1, <1>8, <1>9 DEF BreakerInv

LEMMA BreakerInvInit == GuardsInit => BreakerInv
<1>. SUFFICES ASSUME GuardsInit PROVE BreakerInv
  OBVIOUS
<1>1. CircuitsInv
  BY CircuitsInvInit
<1>2. failed \in [BreakerKeys -> Seq(Nat)] /\ \A k : ~Has(circuits, k)
  BY SMT DEF GuardsInit, Has
<1>3. DOMAIN admitted = Callers
  BY DEF GuardsInit
<1>. QED BY <1>1, <1>2, <1>3 DEF BreakerInv

LEMMA TickKeepsBreaker == ASSUME BreakerInv, Tick PROVE BreakerInv'
<1>1. CircuitsInv /\ CircuitsInv'
  BY TickKeepsCircuits DEF BreakerInv
<1>2. /\ clock \in Nat /\ clock' = clock + 1 /\ circuits' = circuits
      /\ failed' = failed /\ admitted' = admitted
  BY <1>1 DEF CircuitsInv, Tick, history
<1>3. clock' \in Nat /\ clock <= clock'
  BY <1>2, SMT
<1>4. ASSUME NEW k \in BreakerKeys, Has(circuits, k)
      PROVE  Remembers(Lookup(circuits, k), failed[k], clock')
  <2>. DEFINE c == Lookup(circuits, k)
  <2>1. Remembers(c, failed[k], clock) /\ failed[k] \in Seq(Nat)
    BY <1>4 DEF BreakerInv
  <2>. HIDE DEF c
  <2>2. EndOf(c.failures, failed[k], clock) => EndOf(c.failures, failed[k], clock')
    BY <1>2, <1>3, <2>1, EndOfLater
  <2>3. Remembers(c, failed[k], clock')
    BY <2>1, <2>2, RemembersIs
  <2>. QED BY <2>3 DEF c
<1>. QED BY <1>1, <1>2, <1>4 DEF BreakerInv

\* A step of one caller changes no other caller's admission.
LEMMA AdmissionOf ==
    ASSUME DOMAIN admitted = Callers, NEW c \in Callers, NEW v,
           admitted' = [admitted EXCEPT ![c] = v]
    PROVE  /\ DOMAIN admitted' = Callers
           /\ admitted'[c] = v
           /\ \A d \in Callers : d # c => admitted'[d] = admitted[d]
  OBVIOUS

\* A call the chain has just admitted through c's circuit.
LEMMA AdmittedRightly ==
    ASSUME BreakerInv, NEW c \in Callers, NEW approved
    PROVE  LET e == Evaluate(c, approved)
               k == GuardKey(c)
               f == failed[k]
               known == Has(Forgotten(circuits), k)
           IN  /\ e.state = "closed" /\ known =>
                    Cardinality({i \in DOMAIN f : f[i] >= clock - Window}) < FailureThreshold
               /\ e.state = "half_open" /\ known /\ Lookup(Forgotten(circuits), k).state = "open" =>
                    f[Len(f)] + OpenCooldown <= clock
<1>. DEFINE e == Evaluate(c, approved)
            k == GuardKey(c)
            f == failed[k]
            known == Has(Forgotten(circuits), k)
            g == GetOrCreate(circuits, k)
            a == allow_call(g, clock)
            b == Lookup(circuits, k)
<1>1. e.state = IF e.consulted /\ a.decision.allowed THEN a.decision.state ELSE "none"
  BY EvaluateIs
<1>2. CircuitsInv /\ k \in BreakerKeys
  BY KeysInUse DEF BreakerInv
<1>3. clock \in Nat /\ f \in Seq(Nat)
  BY <1>2 DEF BreakerInv, CircuitsInv
<1>4. /\ CircuitOk(g, clock)
      /\ known => /\ Has(circuits, k) /\ Lookup(Forgotten(circuits), k) = b
                  /\ g.state = b.state /\ g.failures = b.failures /\ g.opened_at = b.opened_at
  BY <1>2, GotFacts
<1>5. known => Remembers(b, f, clock) /\ CircuitOk(b, clock)
  BY <1>2, <1>4 DEF BreakerInv, CircuitsInv
<1>6. Remembered(k) \in Seq(Nat) /\ Remembers(g, Remembered(k), clock)
  BY <1>2, GotRemembers
<1>. HIDE DEF e, k, f, known, g, b
<1>7. /\ a.decision.state = "closed" => g.state = "closed"
      /\ a.decision.state = "half_open" /\ g.state = "open" => g.opened_at + OpenCooldown - clock <= 0
  BY <1>3, <1>4, <1>6, AllowRemembers
<1>. HIDE DEF a
<1>8. ASSUME e.state = "closed", known
      PROVE  Cardinality({i \in DOMAIN f : f[i] >= clock - Window}) < FailureThreshold
  <2>1. a.decision.state = "closed"
    BY <1>1, <1>8
  <2>2. b.state = "closed" /\ Remembers(b, f, clock) /\ b.failures \in Seq(Nat)
    BY <1>4, <1>5, <1>7, <1>8, <2>1, CircuitFields DEF CircuitOk
  <2>3. Len(b.failures) < FailureThreshold /\ EndOf(b.failures, f, clock)
    BY <2>2, RemembersIs
  <2>. QED BY <1>3, <2>2, <2>3, RecentFew
<1>9. ASSUME e.state = "half_open", known, b.state = "open"
      PROVE  f[Len(f)] + OpenCooldown <= clock
  <2>1. a.decision.state = "half_open"
    BY <1>1, <1>9
  <2>2. b.opened_at + OpenCooldown - clock <= 0 /\ b.opened_at \in Nat
    BY <1>4, <1>5, <1>7, <1>9, <2>1 DEF CircuitOk
  <2>3. f # <<>> /\ f[Len(f)] <= b.opened_at
    BY <1>5, <1>9, RemembersIs
  <2>4. f[Len(f)] \in Nat /\ OpenCooldown \in Nat
    <3>1. Len(f) \in DOMAIN f
      BY <1>3, <2>3, SMT
    <3>. QED BY <1>3, <3>1, ElementsOf, CircuitBreakerSpec
  <2>. QED BY <1>3, <2>2, <2>3, <2>4, SMT
<1>10. known => Lookup(Forgotten(circuits), k) = b
  BY <1>4
<1>. QED BY <1>8, <1>9, <1>10 DEF e, k, f, known

\* The calls that no step but an evaluation of the chain admits.
LEMMA QuietSteps ==
    ASSUME BreakerInv, NEW c \in Callers,
           \/ UseCachedSuccess(c) \/ Begin(c) \/ acquire(c) \/ CancelWait(c) \/ FindApproval(c)
           \/ (\E r \in {"ok", "failed", "raised"} : RunTool(c, r))
           \/ release(c) \/ RecordResult(c)
    PROVE  /\ DOMAIN admitted' = Callers
           /\ \A d \in Callers : admitted'[d] = admitted[d] \/ admitted'[d] = "none"
<1>1. DOMAIN admitted = Callers
  BY DEF BreakerInv
<1>2. ASSUME UNCHANGED admitted
      PROVE  /\ DOMAIN admitted' = Callers
             /\ \A d \in Callers : admitted'[d] = admitted[d] \/ admitted'[d] = "none"
  BY <1>1, <1>2
<1>3. CASE release(c)
  <2>1. PICK v : admitted' = [admitted EXCEPT ![c] = v] /\ (v = admitted[c] \/ v = "none")
    BY <1>3 DEF release
  <2>. QED BY <1>1, <2>1, AdmissionOf
<1>4. CASE RecordResult(c)
  <2>1. admitted' = [admitted EXCEPT ![c] = "none"]
    BY <1>4 DEF RecordResult
  <2>. QED BY <1>1, <2>1, AdmissionOf
<1>5. CASE \/ UseCachedSuccess(c) \/ Begin(c) \/ acquire(c) \/ CancelWait(c) \/ FindApproval(c)
           \/ (\E r \in {"ok", "failed", "raised"} : RunTool(c, r))
  <2>1. UNCHANGED admitted
    BY <1>5 DEF UseCachedSuccess, Begin, acquire, CancelWait, FindApproval, RunTool, history
  <2>. QED BY <1>2, <2>1
<1>. QED BY <1>3, <1>4, <1>5

LEMMA BreakerInvStep == ASSUME BreakerInv, [GuardsNext]_guards_vars PROVE BreakerInv'
<1>1. ASSUME UNCHANGED <<clock, circuits, failed>>, DOMAIN admitted' = Callers PROVE BreakerInv'
  BY <1>1 DEF BreakerInv, CircuitsInv
<1>2. ASSUME NEW c \in Callers, UseCachedSuccess(c) PROVE BreakerInv'
  <2>1. EvaluateGuards(c, Evaluate(c, FALSE)) /\ UNCHANGED clock
    BY <1>2 DEF UseCachedSuccess
  <2>2. DOMAIN admitted' = Callers
    BY <1>2, QuietSteps
  <2>. QED BY <2>1, <2>2, EvaluateKeepsBreaker
<1>3. ASSUME NEW c \in Callers, CheckGuards(c) \/ CheckGuardsApproved(c) PROVE BreakerInv'
  <2>1. PICK approved : /\ EvaluateGuards(c, Evaluate(c, approved)) /\ UNCHANGED clock
                        /\ admitted' = [admitted EXCEPT ![c] = Evaluate(c, approved).state]
    BY <1>3 DEF CheckGuards, CheckGuardsApproved
  <2>2. DOMAIN admitted' = Callers
    BY <2>1 DEF BreakerInv
  <2>. QED BY <2>1, <2>2, EvaluateKeepsBreaker
<1>4. ASSUME NEW c \in Callers,
             \/ Begin(c) \/ acquire(c) \/ CancelWait(c) \/ FindApproval(c)
             \/ (\E r \in {"ok", "failed", "raised"} : RunTool(c, r))
             \/ release(c)
      PROVE  BreakerInv'
  <2>1. UNCHANGED <<clock, circuits, failed>>
    BY <1>4 DEF Begin, acquire, CancelWait, FindApproval, RunTool, release, history
  <2>2. DOMAIN admitted' = Callers
    BY <1>4, QuietSteps
  <2>. QED BY <1>1, <2>1, <2>2
<1>5. ASSUME NEW c \in Callers, RecordResult(c) PROVE BreakerInv'
  BY <1>5, RecordKeepsBreaker
<1>6. CASE UNCHANGED guards_vars
  BY <1>1, <1>6 DEF guards_vars, history, BreakerInv
<1>7. CASE Tick
  BY <1>7, TickKeepsBreaker
<1>. QED BY <1>2, <1>3, <1>4, <1>5, <1>6, <1>7 DEF GuardsNext

\* The breaker fails fast, for every number of callers and of circuits and every setting: a call
\* goes through a closed circuit only when fewer than failure_threshold failures were reported
\* in the window since the circuit recovered, and an open circuit is probed only when the
\* cooldown has passed since the last failure, that of a late call included (allow_call and
\* record_result in in_memory.py).
THEOREM BreakerFailsFast == GuardsSpec => BreakerTrips
<1>. DEFINE Trips(c) ==
              LET k == GuardKey(c)
                  f == failed[k]
                  known == Has(Forgotten(circuits), k)
              IN
              /\ admitted[c] = "none" /\ admitted'[c] = "closed" /\ known =>
                   Cardinality({i \in DOMAIN f : f[i] >= clock - Window}) < FailureThreshold
              /\ admitted[c] = "none" /\ admitted'[c] = "half_open" /\ known
                   /\ Lookup(Forgotten(circuits), k).state = "open" =>
                   f[Len(f)] + OpenCooldown <= clock
<1>1. ASSUME BreakerInv, [GuardsNext]_guards_vars PROVE [\A c \in Callers : Trips(c)]_guards_vars
  <2>1. ASSUME NEW d \in Callers, admitted'[d] = admitted[d] \/ admitted'[d] = "none"
        PROVE  Trips(d)
    BY <2>1
  <2>2. ASSUME NEW c \in Callers, CheckGuards(c) \/ CheckGuardsApproved(c),
               NEW d \in Callers
        PROVE  Trips(d)
    <3>1. PICK approved : admitted' = [admitted EXCEPT ![c] = Evaluate(c, approved).state]
      BY <2>2 DEF CheckGuards, CheckGuardsApproved
    <3>2. /\ admitted'[c] = Evaluate(c, approved).state
          /\ d # c => admitted'[d] = admitted[d]
      BY <1>1, <3>1, AdmissionOf DEF BreakerInv
    <3>3. CASE d = c
      BY <1>1, <3>2, <3>3, AdmittedRightly
    <3>4. CASE d # c
      BY <2>1, <3>2, <3>4
    <3>. QED BY <3>3, <3>4
  <2>3. ASSUME NEW c \in Callers, NEW d \in Callers,
               \/ UseCachedSuccess(c) \/ Begin(c) \/ acquire(c) \/ CancelWait(c) \/ FindApproval(c)
               \/ (\E r \in {"ok", "failed", "raised"} : RunTool(c, r))
               \/ release(c) \/ RecordResult(c)
        PROVE  Trips(d)
    BY <1>1, <2>1, <2>3, QuietSteps
  <2>4. ASSUME NEW d \in Callers, Tick PROVE Trips(d)
    BY <2>1, <2>4 DEF Tick, history
  <2>. HIDE DEF Trips
  <2>. QED BY <1>1, <2>2, <2>3, <2>4 DEF GuardsNext
<1>. QED BY <1>1, BreakerInvInit, BreakerInvStep, PTL DEF GuardsSpec, BreakerTrips
=============================================================================
