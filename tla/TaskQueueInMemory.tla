-------------------------- MODULE TaskQueueInMemory -------------------------
(***************************************************************************)
(* InMemoryTaskQueue (infra/queue/task_queue_in_memory.py).  Every         *)
(* operation holds the lock from its first await to its end and has no     *)
(* other await, so it is one step.  A heap entry is never taken out of the *)
(* middle: when its envelope is leased, rescheduled or acked it goes stale *)
(* and is passed over when it comes to the top.                            *)
(***************************************************************************)
EXTENDS Integers, FiniteSets, Functions

CONSTANTS
    TQEnvelopes,   \* envelope ids
    TQPriority,    \* TQPriority[e]: envelope.priority
    TQTimes,       \* available_at_ms of an enqueued envelope
    TQTimeouts,    \* visibility timeouts
    TQDelays,      \* delays of a nack
    MaxTQTime,     \* bound: the clock
    MaxTQLeases    \* bound: deliveries

NoTQLease == 0     \* active_lease_id = None; the others are 1, 2, ...

VARIABLES
    tq_now,        \* the clock, which may be set back
    tq,            \* the queue: states, leases, heap, seq
    tq_closed,
    tq_issued      \* lease ids handed out: consumers may use them at any time

task_queue_vars == <<tq_now, tq, tq_closed, tq_issued>>

TQWithout(f, S) == Restrict(f, DOMAIN f \ S)
TQWith(f, x, v) == [y \in DOMAIN f \cup {x} |-> IF y = x THEN v ELSE f[y]]

EmptyTaskQueue == [states |-> <<>>, leases |-> <<>>, heap |-> {}, seq |-> 0]

TaskQueueInit == tq_now = 0 /\ tq = EmptyTaskQueue /\ tq_closed = FALSE /\ tq_issued = 0

\* Mutant: the entry is pushed with the version of the last one, which marks it as stale.
push_available_OldVersion(q, e) ==
    LET s == q.states[e] IN
    [q EXCEPT !.states[e].version = @ + 1,
              !.heap = @ \cup {<<s.available_at, -s.priority, s.version, s.seq, e>>}]

push_available(q, e) ==
    LET s == q.states[e] IN
    [q EXCEPT !.states[e].version = @ + 1,
              !.heap = @ \cup {<<s.available_at, -s.priority, s.version + 1, s.seq, e>>}]

\* heapq order; versions and sequence numbers tell any two entries apart.
Before(x, y) ==
    \E i \in 1..4 : x[i] < y[i] /\ \A j \in 1..i-1 : x[j] = y[j]

\* The leases whose time is up; the envelope keeps the time it was available at.
expired(q, now) ==
    {l \in DOMAIN q.leases :
        \/ q.leases[l] \notin DOMAIN q.states
        \/ q.states[q.leases[l]].leased_until <= now}

release_expired_leases(q, now) ==
    LET Released == {e \in DOMAIN q.states : q.states[e].lease \in expired(q, now)}
        Step[S \in SUBSET Released] ==
            IF S = {} THEN [q EXCEPT !.leases = TQWithout(@, expired(q, now))]
            ELSE LET e == CHOOSE x \in S : TRUE
                     r == Step[S \ {e}]
                 IN  push_available([r EXCEPT !.states[e].lease = NoTQLease], e)
    IN  Step[Released]

Live(q, x) ==
    /\ x[5] \in DOMAIN q.states
    /\ LET s == q.states[x[5]] IN
       /\ s.version = x[3] /\ s.seq = x[4] /\ s.lease = NoTQLease
       /\ s.available_at = x[1] /\ s.priority = -x[2]

\* What the loop of dequeue() leaves: it pops up to the first live entry, which goes back
\* when it is not due.  `top` is that entry, or nothing.
Pop(q, now) ==
    LET Lives == {x \in q.heap : Live(q, x)}
        First == {x \in Lives : \A y \in Lives \ {x} : Before(x, y)}
        Passed == {x \in q.heap : \A y \in First : Before(x, y)}
        Due == {x \in First : x[1] <= now}
    IN  [queue |-> [q EXCEPT !.heap = @ \ (Passed \cup Due)], top |-> Due]

\* dequeue(): the queue it leaves and the envelope it returns, if any.
lease_next(q, now, lease, timeout) ==
    LET p == Pop(release_expired_leases(q, now), now) IN
    [queue |-> IF p.top = {} THEN p.queue
               ELSE LET e == (CHOOSE x \in p.top : TRUE)[5] IN
                    [p.queue EXCEPT !.states[e].next_attempt = @ + 1,
                                    !.states[e].lease = lease,
                                    !.states[e].leased_until = now + timeout,
                                    !.leases = TQWith(@, lease, e)],
     got |-> {x[5] : x \in p.top}]

\* The envelope that a lease still stands for.
Leased(q, l) ==
    {e \in DOMAIN q.states : l \in DOMAIN q.leases /\ q.leases[l] = e /\ q.states[e].lease = l}

-----------------------------------------------------------------------------
(* Operations; on a closed queue they raise *)

enqueue_task(e, at) ==
    /\ ~tq_closed /\ e \notin DOMAIN tq.states
    /\ tq' = push_available(
                 [tq EXCEPT !.seq = @ + 1,
                            !.states = TQWith(@, e, [available_at |-> at, priority |-> TQPriority[e],
                                                   seq |-> tq.seq, version |-> 0, next_attempt |-> 0,
                                                   lease |-> NoTQLease, leased_until |-> 0])], e)
    /\ UNCHANGED <<tq_now, tq_closed, tq_issued>>

dequeue_task(timeout) ==
    /\ ~tq_closed /\ tq_issued < MaxTQLeases
    /\ LET r == lease_next(tq, tq_now, tq_issued + 1, timeout) IN
       /\ tq' = r.queue
       /\ tq_issued' = tq_issued + Cardinality(r.got)
    /\ UNCHANGED <<tq_now, tq_closed>>

ack_task(l) ==
    LET q == release_expired_leases(tq, tq_now) IN
    /\ ~tq_closed /\ l \in 1..tq_issued
    /\ tq' = IF Leased(q, l) = {} THEN q
             ELSE [q EXCEPT !.leases = TQWithout(@, {l}), !.states = TQWithout(@, Leased(q, l))]
    /\ UNCHANGED <<tq_now, tq_closed, tq_issued>>

nack_task(l, delay) ==
    LET q == release_expired_leases(tq, tq_now) IN
    /\ ~tq_closed /\ l \in 1..tq_issued
    /\ tq' = IF Leased(q, l) = {} THEN q
             ELSE LET e == CHOOSE x \in Leased(q, l) : TRUE IN
                  push_available([q EXCEPT !.leases = TQWithout(@, {l}),
                                           !.states[e].lease = NoTQLease,
                                           !.states[e].available_at = tq_now + delay], e)
    /\ UNCHANGED <<tq_now, tq_closed, tq_issued>>

aclose_task_queue ==
    /\ tq' = [EmptyTaskQueue EXCEPT !.seq = tq.seq] /\ tq_closed' = TRUE
    /\ UNCHANGED <<tq_now, tq_issued>>

TQClock ==
    /\ ~tq_closed /\ tq_now' \in (0..MaxTQTime) \ {tq_now}
    /\ UNCHANGED <<tq, tq_closed, tq_issued>>

TaskQueueNext ==
    \/ \E e \in TQEnvelopes, at \in TQTimes : enqueue_task(e, at)
    \/ \E timeout \in TQTimeouts : dequeue_task(timeout)
    \/ \E l \in 1..MaxTQLeases : ack_task(l) \/ \E delay \in TQDelays : nack_task(l, delay)
    \/ aclose_task_queue \/ TQClock

TaskQueueSpec == TaskQueueInit /\ [][TaskQueueNext]_task_queue_vars

-----------------------------------------------------------------------------
\* dequeue() passes over stale entries, and yet misses nothing: it returns no envelope only
\* when each one is still leased or not yet due, and what it returns is leased to nobody.
\* An envelope never has two leases that an ack would accept.
TaskQueueDelivers ==
    LET got == lease_next(tq, tq_now, MaxTQLeases + 1, 1).got
        Hidden(e) == tq.states[e].lease # NoTQLease /\ tq.states[e].leased_until > tq_now
    IN
    /\ got = {} => \A e \in DOMAIN tq.states : Hidden(e) \/ tq.states[e].available_at > tq_now
    /\ \A e \in got : ~Hidden(e)
    /\ \A l, m \in DOMAIN tq.leases : tq.leases[l] = tq.leases[m] => l = m
=============================================================================
