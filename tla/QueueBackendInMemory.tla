------------------------ MODULE QueueBackendInMemory ------------------------
(***************************************************************************)
(* InMemoryQueueBackend (infra/queue/in_memory.py), one of its queues: the *)
(* queues share nothing but the lock.  Nothing is awaited under the lock,  *)
(* so each operation is one step, the reading of the clock before the lock *)
(* included.  Messages are settled by id alone: whoever knows the id may   *)
(* ack it or nack it, also when it is reserved by somebody else.           *)
(***************************************************************************)
EXTENDS Integers, FiniteSets, Functions

CONSTANTS
    DedupeKeys,      \* keys of an enqueue, NoDedupe among them
    NoDedupe,        \* dedupe_key = None
    BackendDelays,   \* available_at_ms - now of an enqueue, and delay_ms of a nack
    LeaseTimes,      \* lease_ms
    MaxBackendTime,  \* bound: the clock
    MaxQueued,       \* bound: messages
    MaxReserved      \* bound: deliveries

VARIABLES
    backend_now,
    backend,         \* _QueueState: messages, leased, dedupe, available_heap
    enqueued,        \* messages made so far: their ids are 1, 2, ...
    reserved         \* deliveries so far

backend_vars == <<backend_now, backend, enqueued, reserved>>

NotLeased == -1      \* leased_until_ms = None
Drop(f, S) == Restrict(f, DOMAIN f \ S)
BPut(f, x, v) == [y \in DOMAIN f \cup {x} |-> IF y = x THEN v ELSE f[y]]

BackendInit ==
    /\ backend_now = 0 /\ enqueued = 0 /\ reserved = 0
    /\ backend = [messages |-> <<>>, leased |-> <<>>, dedupe |-> <<>>, available_heap |-> {}]

\* An entry of the heap, which orders by time available, time enqueued and id.
HeapEntry(q, m) == <<q.messages[m].available_at, q.messages[m].enqueued_at, m>>
Earlier(x, y) == \E i \in 1..3 : x[i] < y[i] /\ \A j \in 1..i-1 : x[j] = y[j]

backend_release_expired(q, now) ==
    LET expired_ids == {m \in DOMAIN q.leased : q.leased[m] <= now} \cap DOMAIN q.messages IN
    [q EXCEPT !.leased = Restrict(@, {m \in DOMAIN @ : @[m] > now}),
              !.messages = [m \in DOMAIN @ |-> IF m \in expired_ids
                                               THEN [@[m] EXCEPT !.leased_until = NotLeased] ELSE @[m]],
              !.available_heap = @ \cup {HeapEntry(q, m) : m \in expired_ids}]

\* The loop of reserve(): stale entries are popped up to the first that counts, which goes
\* back when it is not due.
backend_pop(q, now) ==
    LET Counts == {x \in q.available_heap : /\ x[3] \in DOMAIN q.messages
                                            /\ q.messages[x[3]].leased_until = NotLeased
                                            /\ HeapEntry(q, x[3]) = x}
        First == {x \in Counts : \A y \in Counts \ {x} : Earlier(x, y)}
        Due == {x \in First : x[1] <= now}
    IN  [queue |-> [q EXCEPT !.available_heap =
                        {x \in @ : (\E y \in First : ~Earlier(x, y)) /\ x \notin Due}],
         got |-> {x[3] : x \in Due}]

\* reserve(): the queue it leaves and the message it returns, if any.
reserve(q, now, lease_ms) ==
    LET p == backend_pop(backend_release_expired(q, now), now) IN
    [queue |-> IF p.got = {} THEN p.queue
               ELSE LET m == CHOOSE x \in p.got : TRUE IN
                    [p.queue EXCEPT !.messages[m].attempts = @ + 1,
                                    !.messages[m].leased_until = now + lease_ms,
                                    !.leased = BPut(@, m, now + lease_ms)],
     got |-> p.got]

-----------------------------------------------------------------------------
\* A key that is taken by a message still held returns that message.
enqueue_message(key, delay) ==
    LET held == key \in DOMAIN backend.dedupe /\ backend.dedupe[key] \in DOMAIN backend.messages
        m == enqueued + 1
        state == [available_at |-> backend_now + delay, enqueued_at |-> backend_now, attempts |-> 0,
                  key |-> key, leased_until |-> NotLeased]
    IN
    /\ enqueued < MaxQueued
    /\ IF held THEN UNCHANGED <<backend, enqueued>>
       ELSE /\ enqueued' = m
            /\ backend' =
                 [backend EXCEPT
                    !.dedupe = IF key = NoDedupe THEN @ ELSE BPut(@, key, m),
                    !.messages = BPut(@, m, state),
                    !.available_heap = @ \cup {<<state.available_at, state.enqueued_at, m>>}]
    /\ UNCHANGED <<backend_now, reserved>>

reserve_message(lease_ms) ==
    LET r == reserve(backend, backend_now, lease_ms) IN
    /\ reserved < MaxReserved
    /\ backend' = r.queue /\ reserved' = reserved + Cardinality(r.got)
    /\ UNCHANGED <<backend_now, enqueued>>

\* An unknown id raises.  The heap keeps the entry of a message that was not reserved.
ack_message(m) ==
    /\ m \in DOMAIN backend.messages
    /\ backend' = [backend EXCEPT
                     !.messages = Drop(@, {m}), !.leased = Drop(@, {m}),
                     !.dedupe = Drop(@, {k \in {backend.messages[m].key} \cap DOMAIN @ : @[k] = m})]
    /\ UNCHANGED <<backend_now, enqueued, reserved>>

\* So does a message that is not reserved.
nack_message(m, delay) ==
    /\ m \in DOMAIN backend.messages /\ backend.messages[m].leased_until # NotLeased
    /\ backend' = [backend EXCEPT
                     !.messages[m].leased_until = NotLeased,
                     !.messages[m].available_at = backend_now + delay,
                     !.leased = Drop(@, {m}),
                     !.available_heap = @ \cup {<<backend_now + delay, backend.messages[m].enqueued_at, m>>}]
    /\ UNCHANGED <<backend_now, enqueued, reserved>>

BackendClock ==
    /\ backend_now' \in (0..MaxBackendTime) \ {backend_now}
    /\ UNCHANGED <<backend, enqueued, reserved>>

BackendNext ==
    \/ \E key \in DedupeKeys, delay \in BackendDelays : enqueue_message(key, delay)
    \/ \E lease_ms \in LeaseTimes : reserve_message(lease_ms)
    \/ \E m \in 1..MaxQueued : ack_message(m) \/ \E delay \in BackendDelays : nack_message(m, delay)
    \/ BackendClock

BackendSpec == BackendInit /\ [][BackendNext]_backend_vars

-----------------------------------------------------------------------------
\* reserve() returns nothing only when every message is reserved or not yet due, whatever
\* stale entries nacks, late acks and expiry have left in the heap; and until it is acked a
\* message is the only one of its dedupe_key (the semantics in the docstring of the class).
BackendDelivers ==
    LET q == backend_release_expired(backend, backend_now)
        Held == DOMAIN q.messages
    IN
    /\ reserve(backend, backend_now, 1).got = {} =>
         \A m \in Held : \/ q.messages[m].leased_until > backend_now
                         \/ q.messages[m].available_at > backend_now
    /\ \A m \in Held : (q.messages[m].leased_until # NotLeased) = (m \in DOMAIN q.leased)
    /\ \A m, n \in Held : q.messages[m].key = q.messages[n].key /\ q.messages[m].key # NoDedupe => m = n
=============================================================================
