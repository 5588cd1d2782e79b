--------------------------- MODULE InMemoryQueue ---------------------------
(***************************************************************************)
(* reflexor.infra.queue.in_memory_queue: the asyncio in-memory backend.    *)
(*                                                                         *)
(* Its critical sections hold an asyncio.Lock and contain no await, so the *)
(* event loop runs each of them as one step; consumers interleave only     *)
(* where dequeue() waits on _ready_event.  The object's attributes are the *)
(* fields of the record q; a helper of the package (expire_leases,         *)
(* promote_delayed, ...) is an operator from one such record to the next,  *)
(* and a queue operation is the composition of the helpers it calls.       *)
(*                                                                         *)
(* The two heaps are sets: a heap pops everything that is due in key order,*)
(* so a loop that drains it appends a batch sorted by key to _ready.  Ties *)
(* (uuid4 lease ids; the _seq counter of _delayed) are broken either way.  *)
(***************************************************************************)
EXTENDS Integers, Sequences, FiniteSets, Functions

CONSTANTS
    Envelopes,   \* envelope ids
    Consumers,   \* coroutines calling dequeue()
    NoLease,     \* active_lease_id = None
    Timeouts,    \* visibility timeouts of dequeue(timeout_s=...)
    Delays,      \* delays of nack(delay_s=...)
    MaxTime,     \* bound: the clock stays in 0..MaxTime
    MaxLeases    \* bound: number of leases ever granted

LeaseIds == 1..MaxLeases
Clock == 0..MaxTime

ASSUME EnvelopesFinite == IsFiniteSet(Envelopes)
ASSUME TimesAreNat == Timeouts \subseteq Nat /\ Delays \subseteq Nat /\ MaxTime \in Nat
ASSUME MaxLeasesNat == MaxLeases \in Nat
ASSUME NoLeaseNotInt == NoLease \notin Int

VARIABLES
    now,         \* _now_ms(), a wall clock: it may be stepped back
    q,           \* the attributes of the InMemoryQueue object, see QueueOK
    closed,      \* _closed
    waiting,     \* consumers inside dequeue(), suspended in _ready_event.wait()
    background,  \* promoter and reaper tasks are running
    nextLease,   \* leases granted so far, plus one: uuid4 ids never repeat
    settled      \* leases some consumer has called ack or nack with

vars == <<now, q, closed, waiting, background, nextLease, settled>>

\* _EnvelopeState
EnvelopeState == [next_attempt : Nat, available_at_ms : Nat,
                  in_ready : BOOLEAN, active_lease_id : LeaseIds \cup {NoLease}]

\* _InFlight
InFlight == [envelope_id : Envelopes, attempt : Nat, deadline_ms : Nat]

StatesOK(st) == DOMAIN st \subseteq Envelopes /\ st \in [DOMAIN st -> EnvelopeState]
FlightsOK(fl) == DOMAIN fl \subseteq LeaseIds /\ fl \in [DOMAIN fl -> InFlight]

\* The attributes of the object.  waiters holds the consumers whose future
\* _ready_event.set() has not resolved yet.
QueueOK(s) ==
    /\ DOMAIN s = {"states", "ready", "inFlight", "leaseDeadlines", "delayed",
                   "readyEvent", "waiters"}
    /\ StatesOK(s.states)
    /\ s.ready \in Seq(Envelopes)
    /\ FlightsOK(s.inFlight)
    /\ s.leaseDeadlines \subseteq Nat \X LeaseIds
    /\ s.delayed \subseteq Nat \X Envelopes
    /\ s.readyEvent \in BOOLEAN
    /\ s.waiters \subseteq Consumers

EmptyFunction == [x \in {} |-> x]

EmptyQueue ==
    [states |-> EmptyFunction, ready |-> <<>>, inFlight |-> EmptyFunction,
     leaseDeadlines |-> {}, delayed |-> {}, readyEvent |-> FALSE, waiters |-> {}]

Init ==
    /\ now \in Clock
    /\ q = EmptyQueue
    /\ closed = FALSE
    /\ waiting = {}
    /\ background = FALSE
    /\ nextLease = 1
    /\ settled = {}

----------------------------------------------------------------------------
(* state.py.  st, fl, dl and de stand for the fields states, inFlight,         *)
(* leaseDeadlines and delayed of a queue record s.                            *)

Leased(st, e) == st[e].active_lease_id # NoLease

\* All arrangements of the set S in which the key (a function) never decreases:
\* the orders in which a heap keyed by it may hand out the elements of S.
HeapOrders(S, key) ==
    {b \in [1..Cardinality(S) -> S] :
        /\ \A e \in S : \E i \in DOMAIN b : b[i] = e
        /\ \A i, j \in DOMAIN b : i < j => b[i] # b[j] /\ key[b[i]] <= key[b[j]]}

MarkReady(st, B) == [e \in DOMAIN st |-> [st[e] EXCEPT !.in_ready = @ \/ e \in B]]

\* Mutant of push_ready: the event is set, the consumers waiting on it stay suspended.
push_ready_NoWakeup(s, b) ==
    [s EXCEPT
        !.states = MarkReady(s.states, Range(b)),
        !.ready = s.ready \o b,
        !.readyEvent = s.readyEvent \/ b # <<>>]

\* push_ready for every envelope of the sequence b, in order; the caller has
\* checked that none is leased or in _ready already.  Event.set() resolves the
\* futures of all the consumers waiting on it.
push_ready(s, b) ==
    [s EXCEPT
        !.states = MarkReady(s.states, Range(b)),
        !.ready = s.ready \o b,
        !.readyEvent = s.readyEvent \/ b # <<>>,
        !.waiters = IF b = <<>> THEN s.waiters ELSE {}]

\* push_delayed, for every unleased envelope of the set E.
HeapEntries(st, E) == {<<st[e].available_at_ms, e>> : e \in {f \in E : ~Leased(st, f)}}

push_delayed(s, E) == [s EXCEPT !.delayed = s.delayed \cup HeapEntries(s.states, E)]

AvailableAt(st) == [e \in DOMAIN st |-> st[e].available_at_ms]

\* The envelopes promote_delayed moves: due, and not overtaken by a later state.
Promoted(st, de, t) ==
    {e \in DOMAIN st :
        /\ <<st[e].available_at_ms, e>> \in de
        /\ st[e].available_at_ms <= t
        /\ ~Leased(st, e)
        /\ ~st[e].in_ready}

\* What is left in a heap once all that is due is popped.
NotDue(heap, t) == {d \in heap : d[1] > t}

promote_delayed(s, t, b) == push_ready([s EXCEPT !.delayed = NotDue(s.delayed, t)], b)

----------------------------------------------------------------------------
(* leases.py *)

DueLeases(dl, t) == {d[2] : d \in {d \in dl : d[1] <= t}}

\* The envelopes expire_leases takes back: their active lease is due and in flight.
TimedOut(st, fl, dl, t) ==
    {e \in DOMAIN st :
        /\ st[e].active_lease_id \in DueLeases(dl, t) \cap DOMAIN fl
        /\ fl[st[e].active_lease_id].envelope_id = e}

\* The timed-out envelopes that push_ready does not refuse.
Expired(s, t) ==
    {e \in TimedOut(s.states, s.inFlight, s.leaseDeadlines, t) : ~s.states[e].in_ready}

LeaseDeadline(st, fl) ==
    [e \in {e \in DOMAIN st : Leased(st, e)} |-> fl[st[e].active_lease_id].deadline_ms]

DropLeases(fl, L) == [l \in DOMAIN fl \ L |-> fl[l]]

\* The envelopes of E lose their lease and become available at time t.
Released(st, E, t) ==
    [e \in DOMAIN st |->
        IF e \in E
        THEN [st[e] EXCEPT !.active_lease_id = NoLease, !.available_at_ms = t]
        ELSE st[e]]

PopExpired(s, t) ==
    [s EXCEPT
        !.leaseDeadlines = NotDue(s.leaseDeadlines, t),
        !.inFlight = DropLeases(s.inFlight, DueLeases(s.leaseDeadlines, t)),
        !.states = Released(s.states,
                            TimedOut(s.states, s.inFlight, s.leaseDeadlines, t), t)]

expire_leases(s, t, b) == push_ready(PopExpired(s, t), b)

\* Mutant of Deliverable: try_dequeue trusts _ready and does not look at the due time.
Deliverable_NotChecked(st, t, e) == e \in DOMAIN st /\ ~Leased(st, e)

Deliverable(st, t, e) == e \in DOMAIN st /\ ~Leased(st, e) /\ st[e].available_at_ms <= t

UnmarkReady(st, B) == [e \in DOMAIN st |-> [st[e] EXCEPT !.in_ready = @ /\ e \notin B]]

\* Mutant of SkipReady: an id popped before its time is dropped, not delayed again.
SkipReady_Dropped(s, n) ==
    [s EXCEPT !.ready = SubSeq(s.ready, n + 1, Len(s.ready)),
              !.states = UnmarkReady(s.states, {s.ready[i] : i \in 1..n})]

\* try_dequeue drops the first n ids of _ready: the ones whose time has not come
\* (the clock was stepped back) return to the heap of delayed envelopes.
SkipReady(s, n) ==
    LET skipped == {s.ready[i] : i \in 1..n} \cap DOMAIN s.states IN
    push_delayed(
        [s EXCEPT !.ready = SubSeq(s.ready, n + 1, Len(s.ready)),
                  !.states = UnmarkReady(s.states, skipped)],
        skipped)

GrantedState(st, e, l) ==
    [st EXCEPT ![e] = [next_attempt |-> st[e].next_attempt + 1,
                       available_at_ms |-> st[e].available_at_ms,
                       in_ready |-> FALSE,
                       active_lease_id |-> l]]

GrantedLease(st, fl, e, until, l) ==
    [k \in DOMAIN fl \cup {l} |->
        IF k = l
        THEN [envelope_id |-> e, attempt |-> st[e].next_attempt, deadline_ms |-> until]
        ELSE fl[k]]

\* The head of _ready is delivered under the new lease l.
Grant(s, until, l) ==
    LET e == Head(s.ready) IN
    [s EXCEPT
        !.ready = Tail(s.ready),
        !.states = GrantedState(s.states, e, l),
        !.inFlight = GrantedLease(s.states, s.inFlight, e, until, l),
        !.leaseDeadlines = s.leaseDeadlines \cup {<<until, l>>}]

----------------------------------------------------------------------------
(* core.py *)

\* The states the common prefix of the operations may leave: expire_leases, then
\* promote_delayed.
Expiries(s, t) ==
    {expire_leases(s, t, b) : b \in HeapOrders(Expired(s, t), LeaseDeadline(s.states, s.inFlight))}
Promotions(s, t) ==
    {promote_delayed(s, t, b) :
        b \in HeapOrders(Promoted(s.states, s.delayed, t), AvailableAt(s.states))}
Refreshed(s, t) == UNION {Promotions(s1, t) : s1 \in Expiries(s, t)}

WithAvailableAt(st, e, at) == [st EXCEPT ![e].available_at_ms = at]

\* Make the unleased envelope e available at time at: push_ready or push_delayed.
MakeAvailable(s, e, at, t) ==
    LET s1 == [s EXCEPT !.states = WithAvailableAt(s.states, e, at)] IN
    IF at <= t THEN push_ready(s1, <<e>>) ELSE push_delayed(s1, {e})

NewState == [next_attempt |-> 0, available_at_ms |-> 0,
             in_ready |-> FALSE, active_lease_id |-> NoLease]

WithNew(st, e) == [f \in DOMAIN st \cup {e} |-> IF f = e THEN NewState ELSE st[f]]

Insert(s, e, at, t) == MakeAvailable([s EXCEPT !.states = WithNew(s.states, e)], e, at, t)

enqueue(e, at) ==
    /\ ~closed
    /\ \E s \in Refreshed(q, now) :
        q' = IF e \in DOMAIN s.states
             THEN s                              \* ValueError: already enqueued
             ELSE Insert(s, e, at, now)
    /\ UNCHANGED <<now, closed, waiting, background, nextLease, settled>>

\* One turn of the loop of dequeue() by consumer c: a delivery, or none, after which
\* c returns (wait = FALSE) or suspends itself on the event it has just cleared.
TryDequeue(c, timeout, wait) ==
    \E s \in Refreshed(q, now) :
        \/ \E n \in 0..(Len(s.ready) - 1) :
            /\ nextLease \in LeaseIds
            /\ \A i \in 1..n : ~Deliverable(s.states, now, s.ready[i])
            /\ Deliverable(s.states, now, s.ready[n + 1])
            /\ q' = Grant(SkipReady(s, n), now + timeout, nextLease)
            /\ nextLease' = nextLease + 1
            /\ waiting' = waiting \ {c}
        \/ /\ \A i \in 1..Len(s.ready) : ~Deliverable(s.states, now, s.ready[i])
           /\ q' = [SkipReady(s, Len(s.ready)) EXCEPT
                       !.readyEvent = FALSE,
                       !.waiters = IF wait THEN @ \cup {c} ELSE @]
           /\ waiting' = IF wait THEN waiting \cup {c} ELSE waiting \ {c}
           /\ UNCHANGED nextLease

\* Mutant of dequeue: a waiting call does not start the background tasks.
dequeue_NoBackground(c, timeout, wait) ==
    /\ ~closed
    /\ c \notin waiting
    /\ TryDequeue(c, timeout, wait)
    /\ UNCHANGED <<now, closed, background, settled>>

\* dequeue() is called; a call that may wait starts the background tasks.
dequeue(c, timeout, wait) ==
    /\ ~closed
    /\ c \notin waiting
    /\ background' = (background \/ wait)
    /\ TryDequeue(c, timeout, wait)
    /\ UNCHANGED <<now, closed, settled>>

\* The event woke c: the loop goes round again.
ResumeDequeue(c, timeout) ==
    /\ ~closed
    /\ c \in waiting \ q.waiters
    /\ TryDequeue(c, timeout, TRUE)
    /\ UNCHANGED <<now, closed, background, settled>>

\* wait_s elapsed, or the caller cancelled dequeue() (a worker told to stop), or the
\* loop found the queue closed: c leaves with no lease.
LeaveDequeue(c) ==
    /\ c \in waiting
    /\ waiting' = waiting \ {c}
    /\ q' = [q EXCEPT !.waiters = @ \ {c}]
    /\ UNCHANGED <<now, closed, background, nextLease, settled>>

\* inflight = _in_flight.pop(lease_id), and the state it is the active lease of.
ActiveEnvelopes(st, fl, l) ==
    {e \in DOMAIN st : /\ l \in DOMAIN fl
                       /\ fl[l].envelope_id = e
                       /\ st[e].active_lease_id = l}

Without(st, E) == [e \in DOMAIN st \ E |-> st[e]]

\* _in_flight.pop(lease_id); the envelopes it was active for are forgotten.
Settle(s, l) ==
    [s EXCEPT !.inFlight = DropLeases(s.inFlight, {l}),
              !.states = Without(s.states, ActiveEnvelopes(s.states, s.inFlight, l))]

ack(l) ==
    /\ ~closed
    /\ \E s \in Expiries(q, now) : q' = Settle(s, l)
    /\ settled' = settled \cup {l}
    /\ UNCHANGED <<now, closed, waiting, background, nextLease>>

\* _in_flight.pop(lease_id); the envelopes it was active for are unleased.
Unlease(s, l, t) ==
    [s EXCEPT !.inFlight = DropLeases(s.inFlight, {l}),
              !.states = Released(s.states, ActiveEnvelopes(s.states, s.inFlight, l), t)]

nack(l, delay) ==
    /\ ~closed
    /\ \E s \in Refreshed(q, now) :
        \/ /\ ActiveEnvelopes(s.states, s.inFlight, l) = {}
           /\ q' = Unlease(s, l, now)
        \/ \E e \in ActiveEnvelopes(s.states, s.inFlight, l) :
            q' = MakeAvailable(Unlease(s, l, now), e, now + delay, now)
    /\ settled' = settled \cup {l}
    /\ UNCHANGED <<now, closed, waiting, background, nextLease>>

aclose ==
    /\ ~closed
    /\ closed' = TRUE
    /\ q' = [EmptyQueue EXCEPT !.readyEvent = TRUE]
    /\ background' = FALSE
    /\ UNCHANGED <<now, waiting, nextLease, settled>>

----------------------------------------------------------------------------
(* background.py *)

delayed_promoter_loop ==
    /\ background
    /\ q' \in Promotions(q, now)
    /\ UNCHANGED <<now, closed, waiting, background, nextLease, settled>>

lease_reaper_loop ==
    /\ background
    /\ q' \in Expiries(q, now)
    /\ UNCHANGED <<now, closed, waiting, background, nextLease, settled>>

\* time.time(): it advances, and the host may step it back.
ClockMoves ==
    /\ now' \in Clock
    /\ UNCHANGED <<q, closed, waiting, background, nextLease, settled>>

Next ==
    \/ \E e \in Envelopes, at \in Clock : enqueue(e, at)
    \/ \E c \in Consumers, timeout \in Timeouts :
        \/ \E wait \in BOOLEAN : dequeue(c, timeout, wait)
        \/ ResumeDequeue(c, timeout)
    \/ \E c \in Consumers : LeaveDequeue(c)
    \/ \E l \in 1..(nextLease - 1) :
        \/ ack(l)
        \/ \E delay \in Delays : nack(l, delay)
    \/ aclose
    \/ delayed_promoter_loop
    \/ lease_reaper_loop
    \/ ClockMoves

Spec == Init /\ [][Next]_vars

\* Both loops sleep at most 0.25 s between two rounds, and the event loop runs every
\* task that is ready.
Fairness == WF_vars(delayed_promoter_loop) /\ WF_vars(lease_reaper_loop)

FairSpec == Spec /\ Fairness

----------------------------------------------------------------------------
(* Properties *)

TypeOK ==
    /\ now \in Clock
    /\ QueueOK(q)
    /\ closed \in BOOLEAN
    /\ waiting \in SUBSET Consumers
    /\ background \in BOOLEAN
    /\ nextLease \in 1..(MaxLeases + 1)
    /\ settled \in SUBSET LeaseIds

\* Where an envelope the queue holds can be found again.
InReady(rd, e) == \E i \in DOMAIN rd : rd[i] = e
InDelayed(st, de, e) == <<st[e].available_at_ms, e>> \in de
UnderLease(st, fl, dl, e) ==
    /\ st[e].active_lease_id \in DOMAIN fl
    /\ fl[st[e].active_lease_id].envelope_id = e
    /\ <<fl[st[e].active_lease_id].deadline_ms, st[e].active_lease_id>> \in dl

\* An envelope that was enqueued and not acked is never lost and never duplicated:
\* it is in exactly one of _ready (once), _delayed (under its current due time) and
\* _in_flight (with a deadline in the heap, so that the lease expires).
Unlost(st, rd, fl, dl, de, e) ==
    /\ UnderLease(st, fl, dl, e) \/ InReady(rd, e) \/ InDelayed(st, de, e)
    /\ Leased(st, e) => ~InReady(rd, e) /\ ~InDelayed(st, de, e)
    /\ InReady(rd, e) => ~InDelayed(st, de, e)
    /\ \A i, j \in DOMAIN rd : rd[i] = e /\ rd[j] = e => i = j

NoEnvelopeLost ==
    \A e \in DOMAIN q.states :
        Unlost(q.states, q.ready, q.inFlight, q.leaseDeadlines, q.delayed, e)

\* Two consumers never hold live leases on the same envelope, and a lease that is
\* still in flight is the one its envelope is delivered under: _in_flight never keeps
\* a lease that was superseded.
LeasesCurrent(st, fl) ==
    \A l \in DOMAIN fl :
        fl[l].envelope_id \in DOMAIN st /\ st[fl[l].envelope_id].active_lease_id = l

OneLeasePerEnvelope == LeasesCurrent(q.states, q.inFlight)

\* No lost wake-up: as long as a consumer is suspended on _ready_event, with several
\* consumers clearing and setting that event, _ready is empty.
NoLostWakeup == q.waiters # {} => q.ready = <<>>

\* dequeue(), ack() and nack() keep the promises of semantics.py (QueueContract).
DueOf(st) == [e \in Envelopes |-> IF e \in DOMAIN st THEN st[e].available_at_ms ELSE 0]
AttemptOf(st) == [e \in Envelopes |-> IF e \in DOMAIN st THEN st[e].next_attempt ELSE 0]
LeaseOf(st) == [e \in Envelopes |-> IF e \in DOMAIN st THEN st[e].active_lease_id ELSE NoLease]
DeadlineOf(st, fl) ==
    [e \in Envelopes |->
        IF e \in DOMAIN st /\ Leased(st, e) THEN fl[st[e].active_lease_id].deadline_ms ELSE 0]

Contract == INSTANCE QueueContract WITH
    held <- DOMAIN q.states,
    due <- DueOf(q.states),
    lease <- LeaseOf(q.states),
    deadline <- DeadlineOf(q.states, q.inFlight),
    attempt <- AttemptOf(q.states),
    Times <- Clock

ImplementsContract == Contract!ContractSpec

\* An envelope a consumer could be given right now, without a background step.
Eligible(e) ==
    /\ e \in DOMAIN q.states
    /\ \/ Deliverable(q.states, now, e)
       \/ e \in TimedOut(q.states, q.inFlight, q.leaseDeadlines, now)

\* A consumer blocked in dequeue() does not sleep through work: when an envelope
\* becomes due or its lease times out, the background tasks wake every consumer
\* (unless the envelope is taken, or the clock stepped back, first).
WaitersAreWoken ==
    \A e \in Envelopes, c \in Consumers :
        (c \in q.waiters /\ Eligible(e)) ~> (c \notin q.waiters \/ ~Eligible(e))

----------------------------------------------------------------------------
(* The inductive invariant behind the safety properties.  It is stated of a  *)
(* record s so that it can be followed through the helpers of one operation, *)
(* between which the envelopes of H are held but homeless: out of a lease or *)
(* a heap and not yet pushed anywhere.                                       *)

ReadyExact(st, rd) ==
    /\ \A i \in DOMAIN rd : rd[i] \in DOMAIN st /\ st[rd[i]].in_ready
    /\ \A e \in DOMAIN st : st[e].in_ready => InReady(rd, e)
    /\ \A i, j \in DOMAIN rd : rd[i] = rd[j] => i = j

LeasesExact(st, fl, dl) ==
    /\ LeasesCurrent(st, fl)
    /\ \A e \in DOMAIN st : Leased(st, e) => ~st[e].in_ready /\ UnderLease(st, fl, dl, e)

DelayedExact(st, de) ==
    \A d \in de :
        /\ d[2] \in DOMAIN st
        /\ st[d[2]].available_at_ms = d[1]
        /\ ~Leased(st, d[2])
        /\ ~st[d[2]].in_ready

Homeless(st, de, e) ==
    e \in DOMAIN st /\ ~Leased(st, e) /\ ~st[e].in_ready /\ \A d \in de : d[2] # e

Housed(st, de, H) ==
    /\ \A e \in H : Homeless(st, de, e)
    /\ \A e \in DOMAIN st \ H : Leased(st, e) \/ st[e].in_ready \/ InDelayed(st, de, e)

WakeupOK(rd, wa) == wa # {} => rd = <<>>

QueueInv(s, n, H) ==
    /\ QueueOK(s)
    /\ ReadyExact(s.states, s.ready)
    /\ LeasesExact(s.states, s.inFlight, s.leaseDeadlines)
    /\ DOMAIN s.inFlight \subseteq 1..(n - 1)
    /\ DelayedExact(s.states, s.delayed)
    /\ Housed(s.states, s.delayed, H)
    /\ WakeupOK(s.ready, s.waiters)

IInv == TypeOK /\ QueueInv(q, nextLease, {})
============================================================================
