-------------------------- MODULE RedisStreamsQueue --------------------------
(***************************************************************************)
(* reflexor.infra.queue.redis_streams: the stream with its consumer group, *)
(* the sorted set of delayed envelopes, and consumers, each a process with *)
(* its own RedisStreamsQueue.  Every command and every script is one step. *)
(*                                                                         *)
(* Times are relative to a common clock, which a consumer may read late    *)
(* (Lag): the time until an envelope is available, the idle time of a      *)
(* pending entry.  Delivery counts are left out, and so is the trimming of *)
(* the stream: redis_stream_maxlen is not set.                             *)
(***************************************************************************)
EXTENDS Integers, Sequences, SequencesExt, FiniteSets

CONSTANTS
    Consumers,
    QueuedEnvelopes,
    Undecodable,    \* pairs of a consumer and an envelope its version does not decode
    WorkerSlots,    \* leases the worker of a consumer holds at most
    Lag,            \* Lag[c]: how far the clock of c is behind
    MaxLag,
    ClaimBatch,     \* redis_claim_batch_size
    PromoteBatch,   \* redis_promote_batch_size
    ClaimIdle,      \* claim_idle_ms of dequeue
    RedisDelays,    \* delays of enqueue and nack
    MaxMessages     \* bound: entries ever added to the stream

ASSUME RedisConstants ==
    /\ Undecodable \subseteq Consumers \X QueuedEnvelopes
    /\ Lag \in [Consumers -> 0..MaxLag]
    /\ MaxLag \in Nat /\ RedisDelays \subseteq Nat
    /\ ClaimBatch \in Nat \ {0} /\ PromoteBatch \in Nat \ {0} /\ ClaimIdle \in Nat \ {0}

VARIABLES
    entries,        \* entries[id]: the payload of every entry added to the stream
    delivered,      \* last-delivered-id of the group
    pel,            \* pel[id]: idle time of a pending entry
    delayed,        \* the sorted set
    autoclaim,      \* whether the server knows XAUTOCLAIM
    consumer,       \* consumer[c]: where dequeue is, with what it holds
    buffer,         \* buffer[c]: the ids in _claimed_buffer, where they are in order
    cursor,         \* cursor[c]: _autoclaim_start_id
    leased,         \* leased[c]: the lease ids given to the worker of c
    acked, dropped  \* history: envelopes acked, undecodable ones dropped

redis_vars == <<entries, delivered, pel, delayed, autoclaim, consumer, buffer, cursor, leased,
                acked, dropped>>

At(step) == [at |-> step, id |-> 0, claimed |-> FALSE]
Entry(step, id, claimed) == [at |-> step, id |-> id, claimed |-> claimed]

RedisInit ==
    /\ entries = <<>> /\ delivered = 0 /\ pel = <<>> /\ delayed = {}
    /\ autoclaim \in BOOLEAN
    /\ consumer = [c \in Consumers |-> At("idle")]
    /\ buffer = [c \in Consumers |-> {}]
    /\ cursor = [c \in Consumers |-> 0]
    /\ leased = [c \in Consumers |-> {}]
    /\ acked = {} /\ dropped = {}

Payload(e, wait) == [env |-> e, wait |-> wait]
Pending == DOMAIN pel
Without(id) == [i \in Pending \ {id} |-> pel[i]]
With(id, idle) == [i \in Pending \cup {id} |-> IF i = id THEN idle ELSE pel[i]]

\* XADD of the payloads ps, in this order.
XADD(ps) ==
    /\ Len(entries) + Len(ps) <= MaxMessages
    /\ entries' = entries \o ps

Goes(c, to) == consumer' = [consumer EXCEPT ![c] = to]

----------------------------------------------------------------------------

Enqueued == {entries[i].env : i \in DOMAIN entries} \cup {p.env : p \in delayed}

enqueue(e, delay) ==
    /\ e \notin Enqueued
    /\ \/ /\ delay > 0
          /\ delayed' = delayed \cup {Payload(e, delay)}
          /\ UNCHANGED entries
       \/ /\ delay = 0
          /\ XADD(<<Payload(e, 0)>>)
          /\ UNCHANGED delayed
    /\ UNCHANGED <<delivered, pel, autoclaim, consumer, buffer, cursor, leased, acked, dropped>>

\* What ZRANGEBYSCORE returns of S with a LIMIT: the earliest first, those of one score in
\* an order of their own.
Earliest(S) ==
    {ps \in UNION {SetToSeqs(T) : T \in SUBSET S} :
        /\ Len(ps) = IF Cardinality(S) < PromoteBatch THEN Cardinality(S) ELSE PromoteBatch
        /\ \A i, j \in DOMAIN ps : i < j => ps[i].wait <= ps[j].wait
        /\ \A i \in DOMAIN ps, p \in S \ Range(ps) : ps[i].wait <= p.wait}

\* Mutant: the score of the delayed envelopes is not compared with the clock.
PROMOTE_DELAYED_LUA_All(c) ==
    \E ps \in Earliest(delayed) : XADD(ps) /\ delayed' = delayed \ Range(ps)

\* _PROMOTE_DELAYED_LUA: what is due by the clock of c moves to the stream.
PROMOTE_DELAYED_LUA(c) ==
    \E ps \in Earliest({p \in delayed : p.wait + Lag[c] <= 0}) :
        XADD(ps) /\ delayed' = delayed \ Range(ps)

\* The top of the loop of dequeue.
dequeue(c) ==
    /\ consumer[c].at = "idle" /\ Cardinality(leased[c]) < WorkerSlots
    /\ PROMOTE_DELAYED_LUA(c)
    /\ Goes(c, At("claim"))
    /\ UNCHANGED <<delivered, pel, autoclaim, buffer, cursor, leased, acked, dropped>>

\* The first n of the ids S, as commands with a COUNT return them.
FirstOf(n, S) == {i \in S : Cardinality({j \in S : j < i}) < n}

\* The entries XAUTOCLAIM returns: idle long enough, from the cursor on, at most a batch.
Claimable(from) == FirstOf(ClaimBatch, {i \in Pending : i >= from /\ pel[i] >= ClaimIdle})

Claimed(ids) == [i \in Pending |-> IF i \in ids THEN 0 ELSE pel[i]]

\* The cursor XAUTOCLAIM returns: the next pending entry, or 0 at the end.
NextCursor(ids) ==
    LET rest == FirstOf(1, {i \in Pending : \A j \in ids : i > j})
    IN  IF ids = {} \/ rest = {} THEN 0 ELSE CHOOSE i \in rest : TRUE

\* What try_claim_expired does with the entries it has claimed: it returns the first.
Hand(c, ids) ==
    \/ /\ ids = {}
       /\ buffer' = [buffer EXCEPT ![c] = {}]
       /\ Goes(c, At("read"))
    \/ \E first \in FirstOf(1, ids) :
         /\ buffer' = [buffer EXCEPT ![c] = ids \ {first}]
         /\ Goes(c, Entry("lease", first, TRUE))

try_claim_expired(c) ==
    /\ consumer[c].at = "claim"
    /\ \/ /\ buffer[c] # {}
          /\ Hand(c, buffer[c])
          /\ UNCHANGED <<pel, cursor>>
       \/ /\ buffer[c] = {} /\ autoclaim
          /\ Hand(c, Claimable(cursor[c]))
          /\ pel' = Claimed(Claimable(cursor[c]))
          /\ cursor' = [cursor EXCEPT ![c] = NextCursor(Claimable(cursor[c]))]
       \/ /\ buffer[c] = {} /\ ~autoclaim
          /\ Goes(c, At("pending"))
          /\ UNCHANGED <<pel, cursor, buffer>>
    /\ UNCHANGED <<entries, delivered, delayed, autoclaim, leased, acked, dropped>>

\* try_claim_expired_fallback: of the first batch of pending entries, those idle long enough
\* are claimed.  XPENDING and XCLAIM, which looks at the idle time again, are one step.
try_claim_expired_fallback(c) ==
    LET ids == {i \in FirstOf(ClaimBatch, Pending) : pel[i] >= ClaimIdle} IN
    /\ consumer[c].at = "pending"
    /\ Hand(c, ids)
    /\ pel' = Claimed(ids)
    /\ UNCHANGED <<entries, delivered, delayed, autoclaim, cursor, leased, acked, dropped>>

\* XREADGROUP: the next entry becomes pending, or dequeue returns None.
xreadgroup(c) ==
    /\ consumer[c].at = "read"
    /\ \/ /\ delivered < Len(entries)
          /\ delivered' = delivered + 1
          /\ pel' = With(delivered + 1, 0)
          /\ Goes(c, Entry("lease", delivered + 1, FALSE))
       \/ /\ delivered = Len(entries)
          /\ Goes(c, At("idle"))
          /\ UNCHANGED <<delivered, pel>>
    /\ UNCHANGED <<entries, delayed, autoclaim, buffer, cursor, leased, acked, dropped>>

\* Mutant: the requeue does not look at what XACK returns.
ACK_AND_REQUEUE_LUA_Blind(id, p, immediate) ==
    /\ pel' = Without(id)
    /\ IF immediate THEN XADD(<<p>>) /\ UNCHANGED delayed
       ELSE delayed' = delayed \cup {p} /\ UNCHANGED entries

\* _ACK_AND_REQUEUE_LUA: nothing happens unless the entry was still pending.
ACK_AND_REQUEUE_LUA(id, p, immediate) ==
    \/ /\ id \notin Pending
       /\ UNCHANGED <<entries, pel, delayed>>
    \/ /\ id \in Pending
       /\ pel' = Without(id)
       /\ IF immediate THEN XADD(<<p>>) /\ UNCHANGED delayed
          ELSE delayed' = delayed \cup {p} /\ UNCHANGED entries

\* lease_from_entry and what follows it in dequeue.
Lease(c) ==
    LET id == consumer[c].id
        early == ~consumer[c].claimed /\ entries[id].wait + Lag[c] > 0
    IN
    /\ consumer[c].at = "lease" /\ <<c, entries[id].env>> \notin Undecodable
    /\ \/ /\ early
          /\ ACK_AND_REQUEUE_LUA(id, entries[id], FALSE)
          /\ Goes(c, At("idle"))
          /\ UNCHANGED leased
       \/ /\ ~early
          /\ leased' = [leased EXCEPT ![c] = @ \cup {id}]
          /\ Goes(c, At("idle"))
          /\ UNCHANGED <<entries, pel, delayed>>
    /\ UNCHANGED <<delivered, autoclaim, buffer, cursor, acked, dropped>>

\* _drop_invalid_entry, and dequeue goes on.
drop_invalid_entry(c) ==
    LET id == consumer[c].id IN
    /\ consumer[c].at = "lease" /\ <<c, entries[id].env>> \in Undecodable
    /\ pel' = Without(id)
    /\ dropped' = IF id \in Pending THEN dropped \cup {entries[id].env} ELSE dropped
    /\ Goes(c, At("idle"))
    /\ UNCHANGED <<entries, delivered, delayed, autoclaim, buffer, cursor, leased, acked>>

ack(c, id) ==
    /\ id \in leased[c]
    /\ leased' = [leased EXCEPT ![c] = @ \ {id}]
    /\ pel' = Without(id)
    /\ acked' = IF id \in Pending THEN acked \cup {entries[id].env} ELSE acked
    /\ UNCHANGED <<entries, delivered, delayed, autoclaim, consumer, buffer, cursor, dropped>>

nack(c, id, delay) ==
    /\ id \in leased[c]
    /\ leased' = [leased EXCEPT ![c] = @ \ {id}]
    /\ ACK_AND_REQUEUE_LUA(id, Payload(entries[id].env, delay - Lag[c]), delay = 0)
    /\ UNCHANGED <<delivered, autoclaim, consumer, buffer, cursor, acked, dropped>>

\* The process of c dies, or closes its queue, and starts again.
ConsumerRestarts(c) ==
    /\ consumer' = [consumer EXCEPT ![c] = At("idle")]
    /\ buffer' = [buffer EXCEPT ![c] = {}]
    /\ cursor' = [cursor EXCEPT ![c] = 0]
    /\ leased' = [leased EXCEPT ![c] = {}]
    /\ UNCHANGED <<entries, delivered, pel, delayed, autoclaim, acked, dropped>>

Sooner(p) == [p EXCEPT !.wait = IF @ > -MaxLag THEN @ - 1 ELSE @]

RedisTime ==
    /\ entries' = [i \in DOMAIN entries |-> Sooner(entries[i])]
    /\ delayed' = {Sooner(p) : p \in delayed}
    /\ pel' = [i \in Pending |-> IF pel[i] < ClaimIdle THEN pel[i] + 1 ELSE pel[i]]
    /\ UNCHANGED <<delivered, autoclaim, consumer, buffer, cursor, leased, acked, dropped>>

RedisNext ==
    \/ \E e \in QueuedEnvelopes, d \in RedisDelays : enqueue(e, d)
    \/ \E c \in Consumers :
         \/ dequeue(c) \/ try_claim_expired(c) \/ try_claim_expired_fallback(c)
         \/ xreadgroup(c) \/ Lease(c) \/ drop_invalid_entry(c) \/ ConsumerRestarts(c)
         \/ \E id \in leased[c] : ack(c, id) \/ \E d \in RedisDelays : nack(c, id, d)
    \/ RedisTime

RedisSpec == RedisInit /\ [][RedisNext]_redis_vars

----------------------------------------------------------------------------

\* The entries that are still to be delivered, or pending.
StoredIds == (delivered + 1)..Len(entries) \cup Pending

Copies(e) ==
    Cardinality({i \in StoredIds : entries[i].env = e})
        + Cardinality({p \in delayed : p.env = e})

\* An envelope is in the stream, pending, or delayed, and once only, until it is acked or
\* dropped: late acks and nacks, stale buffers and crashes neither lose nor double it
\* (the scripts of lua.py, claiming.py).
StoredOnce ==
    \A e \in Enqueued : Copies(e) = IF e \in acked \cup dropped THEN 0 ELSE 1

\* No consumer leases an envelope before it is available (invariant 7 of semantics.py),
\* although clocks differ and promotion, read and lease are separate steps.
NotLeasedEarly ==
    [][\A c \in Consumers : \A id \in leased'[c] \ leased[c] : entries[id].wait <= 0]_redis_vars

\* An envelope that was acked is not delivered again.
\* Violated: a claimed entry may wait in a consumer's buffer while another consumer claims,
\* processes and acks it.
AckedIsNotDelivered ==
    [][\A c \in Consumers : \A id \in leased'[c] \ leased[c] : entries[id].env \notin acked]_redis_vars

----------------------------------------------------------------------------
(* The inductive invariant behind StoredOnce and NotLeasedEarly              *)

RedisTypeOK ==
    /\ entries \in Seq([env : QueuedEnvelopes, wait : Int])
    /\ delivered \in 0..Len(entries)
    /\ Pending \subseteq 1..delivered
    /\ delayed \subseteq [env : QueuedEnvelopes, wait : Int] /\ IsFiniteSet(delayed)
    /\ consumer \in [Consumers -> [at : {"idle", "claim", "pending", "read", "lease"},
                                   id : Nat, claimed : BOOLEAN]]
    /\ buffer \in [Consumers -> SUBSET DOMAIN entries]
    /\ leased \in [Consumers -> SUBSET DOMAIN entries]
    /\ acked \cup dropped \subseteq QueuedEnvelopes

Settled(e) == e \in acked \cup dropped

\* Whoever promotes, enqueues or requeues an envelope puts it in the stream only when it is
\* due.
AllDue == \A i \in DOMAIN entries : entries[i].wait <= 0

\* An envelope is at one place at most, and at none once it is settled.
NoneDoubled ==
    /\ \A i \in StoredIds :
        /\ ~Settled(entries[i].env)
        /\ \A j \in StoredIds : entries[i].env = entries[j].env => i = j
    /\ \A p \in delayed :
        /\ ~Settled(p.env)
        /\ \A i \in StoredIds : entries[i].env # p.env
        /\ \A q \in delayed : p.env = q.env => p = q

\* The envelope of every entry that was ever added is somewhere, or settled.
IsStored(e) ==
    \/ \E i \in StoredIds : entries[i].env = e
    \/ \E p \in delayed : p.env = e

NoneLost == \A i \in DOMAIN entries : Settled(entries[i].env) \/ IsStored(entries[i].env)

RedisInv ==
    /\ RedisTypeOK /\ AllDue /\ NoneDoubled /\ NoneLost
    /\ \A c \in Consumers : consumer[c].at = "lease" => consumer[c].id \in DOMAIN entries
    /\ \A e \in acked \cup dropped : \E i \in DOMAIN entries : entries[i].env = e
=============================================================================
