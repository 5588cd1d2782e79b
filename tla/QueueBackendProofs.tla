------------------------ MODULE QueueBackendProofs -------------------------
(***************************************************************************)
(* Proofs about the queue backends other than InMemoryQueue.               *)
(***************************************************************************)
EXTENDS RedisStreamsQueue, FiniteSetTheorems, SequenceTheorems, TLAPS

\* Most steps are first-order; those that count or expand records cite SMT.
USE Zenon

----------------------------------------------------------------------------
(* RedisStreamsQueue                                                         *)

StreamPayload == [env : QueuedEnvelopes, wait : Int]
ConsumerState == [at : {"idle", "claim", "pending", "read", "lease"}, id : Nat, claimed : BOOLEAN]

\* XADD appends.
LEMMA Appended ==
    ASSUME NEW E \in Seq(StreamPayload), NEW ps \in Seq(StreamPayload)
    PROVE  /\ E \o ps \in Seq(StreamPayload)
           /\ Len(E \o ps) = Len(E) + Len(ps)
           /\ DOMAIN (E \o ps) = 1..(Len(E) + Len(ps))
           /\ \A i \in 1..Len(E) : (E \o ps)[i] = E[i]
           /\ \A i \in 1..Len(ps) : (E \o ps)[Len(E) + i] = ps[i]
BY SMT DEF StreamPayload

\* Entries stay where they are, whatever is added.
LEMMA EntriesStay ==
    ASSUME RedisInv, NEW ps \in Seq(StreamPayload), entries' = entries \o ps
    PROVE  /\ entries \in Seq(StreamPayload) /\ entries' \in Seq(StreamPayload)
           /\ Len(entries) \in Nat /\ Len(ps) \in Nat
           /\ Len(entries') = Len(entries) + Len(ps)
           /\ DOMAIN entries = 1..Len(entries)
           /\ DOMAIN entries' = 1..(Len(entries) + Len(ps))
           /\ \A i \in DOMAIN entries : i \in DOMAIN entries' /\ entries'[i] = entries[i]
           /\ \A i \in 1..Len(ps) : entries'[Len(entries) + i] = ps[i]
           /\ \A i \in DOMAIN entries' :
                \/ i \in DOMAIN entries
                \/ i - Len(entries) \in 1..Len(ps) /\ entries'[i] = ps[i - Len(entries)]
<1>1. entries \in Seq(StreamPayload)
  BY DEF RedisInv, RedisTypeOK, StreamPayload
<1>2. /\ entries' \in Seq(StreamPayload)
      /\ Len(entries') = Len(entries) + Len(ps)
      /\ DOMAIN entries' = 1..(Len(entries) + Len(ps))
      /\ \A i \in 1..Len(entries) : entries'[i] = entries[i]
      /\ \A i \in 1..Len(ps) : entries'[Len(entries) + i] = ps[i]
  BY <1>1, Appended
<1>3. DOMAIN entries = 1..Len(entries) /\ Len(entries) \in Nat /\ Len(ps) \in Nat
  BY <1>1, SMT
<1>4. ASSUME NEW i \in DOMAIN entries', i \notin DOMAIN entries
      PROVE  i - Len(entries) \in 1..Len(ps) /\ entries'[i] = ps[i - Len(entries)]
  <2>1. i \in Int /\ i > Len(entries) /\ i <= Len(entries) + Len(ps)
    BY <1>2, <1>3, <1>4, SMT
  <2>2. i - Len(entries) \in 1..Len(ps) /\ Len(entries) + (i - Len(entries)) = i
    BY <1>3, <2>1, SMT
  <2>. QED BY <1>2, <2>2
<1>. QED BY <1>1, <1>2, <1>3, <1>4, SMT

\* A step moves envelopes: the entries G and the delayed envelopes D go, the entries ps and
\* the delayed envelopes N come, and the envelopes A are settled.  What comes is new or was
\* there, and what goes comes back or is settled.
Leaves(G, D, e) == (\E i \in G : entries[i].env = e) \/ (\E p \in D : p.env = e)

Comes(ps, N, e) == (\E i \in 1..Len(ps) : ps[i].env = e) \/ (\E p \in N : p.env = e)

Moves(ps, G, D, N, A) ==
    /\ ps \in Seq(StreamPayload) /\ G \subseteq Pending /\ D \subseteq delayed
    /\ N \subseteq StreamPayload /\ IsFiniteSet(N) /\ A \subseteq QueuedEnvelopes
    /\ entries' = entries \o ps /\ delivered' = delivered /\ DOMAIN pel' = Pending \ G
    /\ delayed' = (delayed \ D) \cup N /\ acked' \cup dropped' = acked \cup dropped \cup A
    /\ \A i \in 1..Len(ps) : ps[i].wait <= 0
    /\ \A e : Comes(ps, N, e) => e \notin A /\ (e \notin Enqueued \/ Leaves(G, D, e))
    /\ \A e : Leaves(G, D, e) => e \in A \/ Comes(ps, N, e)
    /\ \A e \in A : Leaves(G, D, e)
    /\ \A i, j \in 1..Len(ps) : ps[i].env = ps[j].env => i = j
    /\ \A p, q \in N : p.env = q.env => p = q
    /\ \A i \in 1..Len(ps), p \in N : ps[i].env # p.env
    /\ \A e \in A : \E i \in DOMAIN entries : entries[i].env = e
    /\ consumer' \in [Consumers -> ConsumerState]
    /\ \A c \in Consumers : consumer'[c].at = "lease" => consumer'[c] = consumer[c]
    /\ buffer' = buffer /\ leased' \in [Consumers -> SUBSET DOMAIN entries]

LEMMA MoveKeeps ==
    ASSUME RedisInv, NEW ps, NEW G, NEW D, NEW N, NEW A, Moves(ps, G, D, N, A)
    PROVE  RedisInv'
<1>. USE DEF Settled, ConsumerState, Moves
<1>0. /\ entries \in Seq(StreamPayload) /\ entries' \in Seq(StreamPayload)
      /\ Len(entries) \in Nat /\ Len(ps) \in Nat
      /\ Len(entries') = Len(entries) + Len(ps)
      /\ DOMAIN entries = 1..Len(entries)
      /\ DOMAIN entries' = 1..(Len(entries) + Len(ps))
      /\ \A i \in DOMAIN entries : i \in DOMAIN entries' /\ entries'[i] = entries[i]
      /\ \A i \in 1..Len(ps) : entries'[Len(entries) + i] = ps[i]
      /\ \A i \in DOMAIN entries' :
            \/ i \in DOMAIN entries
            \/ i - Len(entries) \in 1..Len(ps) /\ entries'[i] = ps[i - Len(entries)]
  BY EntriesStay
<1>1. /\ delivered \in 0..Len(entries) /\ Pending \subseteq 1..delivered
      /\ delayed \subseteq StreamPayload /\ acked \cup dropped \subseteq QueuedEnvelopes
      /\ buffer \in [Consumers -> SUBSET DOMAIN entries]
  BY DEF RedisInv, RedisTypeOK, StreamPayload
<1>a. IsFiniteSet(delayed')
  <2>1. IsFiniteSet(delayed \ D)
    BY FS_Subset DEF RedisInv, RedisTypeOK
  <2>. QED BY <2>1, FS_Union
<1>2. RedisTypeOK'
  BY <1>0, <1>1, <1>a, SMT DEF RedisTypeOK, StreamPayload, Pending
<1>3. AllDue'
  BY <1>0 DEF RedisInv, AllDue
<1>4. StoredIds \subseteq DOMAIN entries
  <2>1. ASSUME NEW i \in Pending PROVE i \in 1..Len(entries)
    BY <1>0, <1>1, SMT
  <2>2. ASSUME NEW i \in (delivered + 1)..Len(entries) PROVE i \in 1..Len(entries)
    BY <1>0, <1>1, SMT
  <2>. QED BY <1>0, <2>1, <2>2 DEF StoredIds
<1>5. ASSUME NEW i \in StoredIds'
      PROVE  \/ i \in StoredIds \ G /\ entries'[i] = entries[i]
             \/ i - Len(entries) \in 1..Len(ps) /\ entries'[i] = ps[i - Len(entries)]
  <2>1. i \in Pending \ G \/ i \in (delivered + 1)..Len(entries')
    BY DEF StoredIds, Pending
  <2>2. CASE i \in Pending \ G
    BY <1>0, <1>4, <2>2 DEF StoredIds
  <2>3. CASE i \in (delivered + 1)..Len(entries')
    <3>1. i \in DOMAIN entries'
      BY <1>0, <1>1, <2>3, SMT
    <3>2. i \notin G
      BY <1>1, <2>3, SMT
    <3>3. i \in DOMAIN entries => i \in StoredIds
      BY <1>0, <2>3, SMT DEF StoredIds
    <3>. QED BY <1>0, <3>1, <3>2, <3>3
  <2>. QED BY <2>1, <2>2, <2>3
<1>6. ASSUME NEW i \in StoredIds \ G PROVE i \in StoredIds' /\ entries'[i] = entries[i]
  BY <1>0, <1>1, <1>4, SMT DEF StoredIds, Pending
<1>7. ASSUME NEW i \in 1..Len(ps)
      PROVE  Len(entries) + i \in StoredIds' /\ entries'[Len(entries) + i] = ps[i]
  BY <1>0, <1>1, SMT DEF StoredIds
<1>8. \A e : Leaves(G, D, e) => e \in Enqueued /\ IsStored(e)
  <2>1. G \subseteq StoredIds
    BY DEF StoredIds
  <2>. QED BY <1>4, <2>1, SMT DEF Leaves, Enqueued, IsStored
<1>9. \A e : IsStored(e) /\ ~Leaves(G, D, e) => ~Comes(ps, N, e)
  BY <1>4, SMT DEF IsStored, Enqueued
<1>10. NoneDoubled'
  <2>1. NoneDoubled
    BY DEF RedisInv
  <2>2. \A i \in StoredIds \ G : ~Leaves(G, D, entries[i].env) /\ IsStored(entries[i].env)
    <3>1. G \subseteq StoredIds
      BY DEF StoredIds
    <3>. QED BY <2>1, <3>1 DEF NoneDoubled, Leaves, IsStored
  <2>3. \A p \in delayed \ D : ~Leaves(G, D, p.env) /\ IsStored(p.env)
    <3>1. G \subseteq StoredIds
      BY DEF StoredIds
    <3>. QED BY <2>1, <3>1 DEF NoneDoubled, Leaves, IsStored
  <2>4. \A i \in StoredIds \ G : ~Comes(ps, N, entries[i].env) /\ entries[i].env \notin A
    BY <1>9, <2>2
  <2>5. \A p \in delayed \ D : ~Comes(ps, N, p.env) /\ p.env \notin A
    BY <1>9, <2>3
  <2>6. \A e : Comes(ps, N, e) => e \notin acked \cup dropped \cup A
    <3>1. ASSUME NEW e, Comes(ps, N, e), e \in acked \cup dropped PROVE FALSE
      <4>1. PICK i \in DOMAIN entries : entries[i].env = e
        BY <3>1 DEF RedisInv
      <4>a. e \in Enqueued
        BY <4>1 DEF Enqueued
      <4>2. IsStored(e)
        BY <1>8, <3>1, <4>a
      <4>. QED BY <2>1, <3>1, <4>2, SMT DEF NoneDoubled, IsStored
    <3>. QED BY <3>1
  <2>7. \A i \in 1..Len(ps) : Comes(ps, N, ps[i].env)
    BY DEF Comes
  <2>8. \A p \in N : Comes(ps, N, p.env)
    BY DEF Comes
  <2>9. ASSUME NEW i \in StoredIds'
        PROVE  entries'[i].env \notin acked' \cup dropped'
    <3>1. CASE i \in StoredIds \ G /\ entries'[i] = entries[i]
      BY <2>1, <2>4, <3>1 DEF NoneDoubled
    <3>2. CASE i - Len(entries) \in 1..Len(ps) /\ entries'[i] = ps[i - Len(entries)]
      BY <2>6, <2>7, <3>2
    <3>. QED BY <1>5, <3>1, <3>2
  <2>10. ASSUME NEW i \in StoredIds', NEW j \in StoredIds', entries'[i].env = entries'[j].env
         PROVE  i = j
    <3>0. StoredIds' \subseteq Int
      BY <1>1, <1>0, SMT DEF StoredIds, Pending
    <3>1. CASE i \in StoredIds \ G /\ entries'[i] = entries[i]
      <4>1. j \in StoredIds \ G /\ entries'[j] = entries[j]
        <5>1. ~Comes(ps, N, entries'[j].env)
          BY <2>4, <2>10, <3>1
        <5>. QED BY <1>5, <2>7, <5>1
      <4>. QED BY <2>1, <2>10, <3>1, <4>1, SMT DEF NoneDoubled
    <3>2. CASE i - Len(entries) \in 1..Len(ps) /\ entries'[i] = ps[i - Len(entries)]
      <4>1. j - Len(entries) \in 1..Len(ps) /\ entries'[j] = ps[j - Len(entries)]
        BY <1>5, <2>4, <2>7, <2>10, <3>2
      <4>2. i - Len(entries) = j - Len(entries)
        BY <2>10, <3>2, <4>1
      <4>. QED BY <1>0, <3>0, <4>2, SMT
    <3>. QED BY <1>5, <3>1, <3>2
  <2>11. ASSUME NEW p \in delayed', NEW i \in StoredIds' PROVE entries'[i].env # p.env
    <3>1. CASE i \in StoredIds \ G /\ entries'[i] = entries[i]
      BY <2>1, <2>4, <2>8, <3>1 DEF NoneDoubled
    <3>2. CASE i - Len(entries) \in 1..Len(ps) /\ entries'[i] = ps[i - Len(entries)]
      BY <2>5, <2>7, <3>2, SMT
    <3>. QED BY <1>5, <3>1, <3>2
  <2>12. ASSUME NEW p \in delayed'
         PROVE  p.env \notin acked' \cup dropped' /\ \A r \in delayed' : p.env = r.env => p = r
    BY <2>1, <2>5, <2>6, <2>8 DEF NoneDoubled
  <2>. QED BY <2>9, <2>10, <2>11, <2>12 DEF NoneDoubled
<1>11. \A e : Comes(ps, N, e) => IsStored(e)'
  <2>. SUFFICES ASSUME NEW e, Comes(ps, N, e) PROVE IsStored(e)'
    OBVIOUS
  <2>1. CASE \E i \in 1..Len(ps) : ps[i].env = e
    <3>1. PICK i \in 1..Len(ps) : ps[i].env = e
      BY <2>1
    <3>2. Len(entries) + i \in StoredIds' /\ entries'[Len(entries) + i].env = e
      BY <1>7, <3>1
    <3>. HIDE DEF Moves
    <3>. QED BY <3>2 DEF IsStored
  <2>2. CASE \E p \in N : p.env = e
    BY <2>2 DEF IsStored
  <2>. QED BY <2>1, <2>2 DEF Comes
<1>12. \A e : IsStored(e) => IsStored(e)' \/ e \in A
  <2>. SUFFICES ASSUME NEW e, IsStored(e), e \notin A PROVE IsStored(e)'
    OBVIOUS
  <2>1. CASE Leaves(G, D, e)
    BY <1>11, <2>1
  <2>2. CASE ~Leaves(G, D, e)
    <3>1. (\E i \in StoredIds \ G : entries[i].env = e) \/ (\E p \in delayed \ D : p.env = e)
      BY <2>2 DEF IsStored, Leaves
    <3>. QED BY <1>6, <3>1 DEF IsStored
  <2>. QED BY <2>1, <2>2
<1>13. NoneLost'
  <2>. DEFINE Kept(e) == \/ e \in acked' \cup dropped'
                         \/ \E i \in StoredIds' : entries'[i].env = e
                         \/ \E p \in delayed' : p.env = e
  <2>1. ASSUME NEW i \in DOMAIN entries PROVE Kept(entries[i].env)
    BY <1>12 DEF RedisInv, NoneLost, IsStored
  <2>2. ASSUME NEW i \in 1..Len(ps) PROVE Kept(ps[i].env)
    BY <1>11 DEF Comes, IsStored
  <2>. HIDE DEF Kept
  <2>3. \A i \in DOMAIN entries' : Kept(entries'[i].env)
    BY <1>0, <2>1, <2>2, SMT
  <2>. QED BY <2>3 DEF NoneLost, IsStored, Kept
<1>14. \A c \in Consumers : consumer'[c].at = "lease" => consumer'[c].id \in DOMAIN entries'
  BY <1>0 DEF RedisInv
<1>15. \A e \in acked' \cup dropped' : \E i \in DOMAIN entries' : entries'[i].env = e
  <2>1. \A e \in acked \cup dropped \cup A : \E i \in DOMAIN entries : entries[i].env = e
    BY DEF RedisInv
  <2>2. /\ acked' \cup dropped' \subseteq acked \cup dropped \cup A
        /\ \A i \in DOMAIN entries : i \in DOMAIN entries' /\ entries'[i] = entries[i]
    BY <1>0
  <2>. QED BY <2>1, <2>2
<1>. QED BY <1>2, <1>3, <1>10, <1>13, <1>14, <1>15 DEF RedisInv

\* A step that moves no envelope.
LEMMA StayKeeps ==
    ASSUME RedisInv, UNCHANGED <<entries, delayed, acked, dropped>>,
           StoredIds' = StoredIds, delivered' \in 0..Len(entries), Pending' \subseteq 1..delivered',
           consumer' \in [Consumers -> ConsumerState],
           \A c \in Consumers : consumer'[c].at = "lease" => consumer'[c].id \in DOMAIN entries,
           buffer' \in [Consumers -> SUBSET DOMAIN entries],
           leased' \in [Consumers -> SUBSET DOMAIN entries]
    PROVE  RedisInv'
<1>1. RedisTypeOK'
  BY DEF RedisInv, RedisTypeOK, ConsumerState
<1>2. AllDue' /\ NoneDoubled' /\ NoneLost'
  BY DEF RedisInv, AllDue, NoneDoubled, NoneLost, IsStored, Settled
<1>. QED BY <1>1, <1>2 DEF RedisInv

\* What the invariant says of consumers and of the places of envelopes.
LEMMA RedisFacts ==
    ASSUME RedisInv
    PROVE  /\ entries \in Seq(StreamPayload) /\ DOMAIN entries = 1..Len(entries) /\ Len(entries) \in Nat
           /\ delivered \in 0..Len(entries) /\ Pending \subseteq 1..delivered
           /\ Pending \subseteq StoredIds /\ StoredIds \subseteq DOMAIN entries
           /\ delayed \subseteq StreamPayload /\ IsFiniteSet(delayed)
           /\ consumer \in [Consumers -> ConsumerState]
           /\ buffer \in [Consumers -> SUBSET DOMAIN entries]
           /\ leased \in [Consumers -> SUBSET DOMAIN entries]
           /\ \A c \in Consumers : consumer[c].at = "lease" => consumer[c].id \in DOMAIN entries
<1>1. /\ entries \in Seq(StreamPayload)
      /\ delivered \in 0..Len(entries) /\ Pending \subseteq 1..delivered
      /\ delayed \subseteq StreamPayload /\ IsFiniteSet(delayed)
      /\ consumer \in [Consumers -> ConsumerState]
      /\ buffer \in [Consumers -> SUBSET DOMAIN entries]
      /\ leased \in [Consumers -> SUBSET DOMAIN entries]
      /\ \A c \in Consumers : consumer[c].at = "lease" => consumer[c].id \in DOMAIN entries
  BY DEF RedisInv, RedisTypeOK, StreamPayload, ConsumerState
<1>2. DOMAIN entries = 1..Len(entries) /\ Len(entries) \in Nat
  BY <1>1, SMT
<1>3. StoredIds \subseteq DOMAIN entries
  <2>1. ASSUME NEW i \in Pending PROVE i \in 1..Len(entries)
    BY <1>1, <1>2, SMT
  <2>2. ASSUME NEW i \in (delivered + 1)..Len(entries) PROVE i \in 1..Len(entries)
    BY <1>1, <1>2, SMT
  <2>. QED BY <1>2, <2>1, <2>2 DEF StoredIds
<1>. QED BY <1>1, <1>2, <1>3 DEF StoredIds

\* Where dequeue goes next.
LEMMA GoesTyped ==
    ASSUME RedisInv, NEW c \in Consumers, NEW to \in ConsumerState, Goes(c, to),
           to.at = "lease" => to.id \in DOMAIN entries
    PROVE  /\ consumer' \in [Consumers -> ConsumerState]
           /\ \A d \in Consumers : consumer'[d].at = "lease" => consumer'[d].id \in DOMAIN entries
BY RedisFacts DEF Goes

LEMMA AtTyped ==
    ASSUME NEW step \in {"idle", "claim", "pending", "read"}
    PROVE  At(step) \in ConsumerState /\ At(step).at = step
BY DEF At, ConsumerState

\* try_claim_expired hands out entries of the stream.
LEMMA HandKeeps ==
    ASSUME RedisInv, NEW c \in Consumers, NEW ids \in SUBSET DOMAIN entries, Hand(c, ids),
           DOMAIN pel' = Pending, UNCHANGED <<entries, delivered, delayed, leased, acked, dropped>>
    PROVE  RedisInv'
<1>1. /\ consumer' \in [Consumers -> ConsumerState]
      /\ \A d \in Consumers : consumer'[d].at = "lease" => consumer'[d].id \in DOMAIN entries
  <2>1. CASE Goes(c, At("read"))
    BY <2>1, GoesTyped, AtTyped
  <2>2. ASSUME NEW first \in ids, Goes(c, Entry("lease", first, TRUE))
        PROVE  /\ consumer' \in [Consumers -> ConsumerState]
               /\ \A d \in Consumers : consumer'[d].at = "lease" => consumer'[d].id \in DOMAIN entries
    <3>1. first \in DOMAIN entries /\ first \in Nat
      BY RedisFacts, SMT
    <3>2. Entry("lease", first, TRUE) \in ConsumerState /\ Entry("lease", first, TRUE).id = first
      BY <3>1 DEF Entry, ConsumerState
    <3>. QED BY <2>2, <3>1, <3>2, GoesTyped
  <2>. QED BY <2>1, <2>2 DEF Hand, FirstOf
<1>2. buffer' \in [Consumers -> SUBSET DOMAIN entries]
  BY RedisFacts DEF Hand
<1>3. StoredIds' = StoredIds
  BY DEF StoredIds, Pending
<1>. QED BY <1>1, <1>2, <1>3, RedisFacts, StayKeeps DEF Pending

LEMMA ClaimKeeps ==
    ASSUME RedisInv, NEW c \in Consumers, try_claim_expired(c) \/ try_claim_expired_fallback(c)
    PROVE  RedisInv'
<1>1. UNCHANGED <<entries, delivered, delayed, leased, acked, dropped>>
  BY DEF try_claim_expired, try_claim_expired_fallback
<1>2. buffer[c] \subseteq DOMAIN entries /\ Pending \subseteq DOMAIN entries
  BY RedisFacts
<1>3. \A S : DOMAIN Claimed(S) = Pending
  BY DEF Claimed
<1>4. CASE Hand(c, buffer[c]) /\ pel' = pel
  BY <1>1, <1>2, <1>4, HandKeeps DEF Pending
<1>5. CASE Hand(c, Claimable(cursor[c])) /\ pel' = Claimed(Claimable(cursor[c]))
  <2>. DEFINE ids == Claimable(cursor[c])
  <2>1. ids \subseteq DOMAIN entries
    BY <1>2 DEF Claimable, FirstOf
  <2>2. DOMAIN pel' = Pending /\ Hand(c, ids)
    BY <1>3, <1>5
  <2>. HIDE DEF ids
  <2>. QED BY <1>1, <2>1, <2>2, HandKeeps
<1>6. CASE Goes(c, At("pending")) /\ UNCHANGED <<pel, buffer>>
  <2>1. StoredIds' = StoredIds /\ Pending' = Pending
    BY <1>1, <1>6 DEF StoredIds, Pending
  <2>. QED BY <1>1, <1>6, <2>1, RedisFacts, GoesTyped, AtTyped, StayKeeps
<1>7. CASE try_claim_expired_fallback(c)
  <2>. DEFINE ids == {i \in FirstOf(ClaimBatch, Pending) : pel[i] >= ClaimIdle}
  <2>1. ids \subseteq DOMAIN entries
    BY <1>2 DEF FirstOf
  <2>2. DOMAIN pel' = Pending /\ Hand(c, ids)
    BY <1>3, <1>7 DEF try_claim_expired_fallback
  <2>. HIDE DEF ids
  <2>. QED BY <1>1, <2>1, <2>2, HandKeeps
<1>. QED BY <1>4, <1>5, <1>6, <1>7 DEF try_claim_expired

\* XREADGROUP moves the entry to the pending ones in one command.
LEMMA ReadKeeps ==
    ASSUME RedisInv, NEW c \in Consumers, xreadgroup(c) PROVE RedisInv'
<1>1. UNCHANGED <<entries, delayed, buffer, leased, acked, dropped>>
  BY DEF xreadgroup
<1>2. CASE delivered < Len(entries) /\ delivered' = delivered + 1 /\ pel' = With(delivered + 1, 0)
           /\ Goes(c, Entry("lease", delivered + 1, FALSE))
  <2>0. delivered \in Nat /\ Len(entries) \in Nat /\ Pending \subseteq 1..delivered
    BY RedisFacts, SMT
  <2>1. delivered + 1 \in DOMAIN entries /\ delivered' \in 0..Len(entries)
    BY <1>2, <2>0, RedisFacts, SMT
  <2>2. Pending' = Pending \cup {delivered + 1}
    BY <1>2 DEF With, Pending
  <2>3. StoredIds' = StoredIds
    <3>1. (delivered + 1)..Len(entries) = {delivered + 1} \cup (delivered + 2)..Len(entries)
      BY <1>2, <2>0, SMT
    <3>2. StoredIds' = ((delivered + 2)..Len(entries)) \cup (Pending \cup {delivered + 1})
      BY <1>1, <1>2, <2>0, <2>2, SMT DEF StoredIds
    <3>. QED BY <3>1, <3>2 DEF StoredIds
  <2>4. Pending' \subseteq 1..delivered'
    BY <1>2, <2>0, <2>2, SMT
  <2>5. Entry("lease", delivered + 1, FALSE) \in ConsumerState
        /\ Entry("lease", delivered + 1, FALSE).id = delivered + 1
    BY <2>0, SMT DEF Entry, ConsumerState
  <2>. QED BY <1>1, <1>2, <2>1, <2>3, <2>4, <2>5, RedisFacts, GoesTyped, StayKeeps
<1>3. CASE Goes(c, At("idle")) /\ UNCHANGED <<delivered, pel>>
  <2>1. StoredIds' = StoredIds /\ Pending' = Pending
    BY <1>1, <1>3 DEF StoredIds, Pending
  <2>. QED BY <1>1, <1>3, <2>1, RedisFacts, GoesTyped, AtTyped, StayKeeps
<1>. QED BY <1>2, <1>3 DEF xreadgroup

\* A crash loses no envelope: everything is in Redis.
LEMMA RestartKeeps ==
    ASSUME RedisInv, NEW c \in Consumers, ConsumerRestarts(c) PROVE RedisInv'
<1>1. /\ UNCHANGED <<entries, delivered, pel, delayed, acked, dropped>>
      /\ Goes(c, At("idle"))
      /\ buffer' = [buffer EXCEPT ![c] = {}] /\ leased' = [leased EXCEPT ![c] = {}]
  BY DEF ConsumerRestarts, Goes
<1>2. StoredIds' = StoredIds /\ Pending' = Pending
  BY <1>1 DEF StoredIds, Pending
<1>3. buffer' \in [Consumers -> SUBSET DOMAIN entries] /\ leased' \in [Consumers -> SUBSET DOMAIN entries]
  BY <1>1, RedisFacts
<1>. QED BY <1>1, <1>2, <1>3, RedisFacts, GoesTyped, AtTyped, StayKeeps

\* Envelopes come nearer, and stay what they are.
LEMMA TimeKeeps == RedisInv /\ RedisTime => RedisInv'
<1>. SUFFICES ASSUME RedisInv, RedisTime PROVE RedisInv'
  OBVIOUS
<1>1. UNCHANGED <<delivered, consumer, buffer, leased, acked, dropped>>
  BY DEF RedisTime
<1>2. ASSUME NEW p \in StreamPayload
      PROVE  Sooner(p) \in StreamPayload /\ Sooner(p).env = p.env /\ Sooner(p).wait <= p.wait
  BY <1>2, RedisConstants, SMT DEF Sooner, StreamPayload
<1>3. \A i \in DOMAIN entries : entries[i] \in StreamPayload
  BY RedisFacts, SMT
<1>4. /\ entries' \in Seq(StreamPayload) /\ DOMAIN entries' = DOMAIN entries /\ Len(entries') = Len(entries)
      /\ \A i \in DOMAIN entries : entries'[i].env = entries[i].env /\ entries'[i].wait <= entries[i].wait
  <2>1. entries' = [i \in 1..Len(entries) |-> Sooner(entries[i])]
    BY RedisFacts DEF RedisTime
  <2>2. \A i \in 1..Len(entries) : Sooner(entries[i]) \in StreamPayload
    BY <1>2, <1>3, RedisFacts
  <2>3. entries' \in Seq(StreamPayload) /\ DOMAIN entries' = 1..Len(entries) /\ Len(entries') = Len(entries)
    BY <2>1, <2>2, RedisFacts, SMT
  <2>. QED BY <1>2, <1>3, <2>1, <2>3, RedisFacts
<1>5. Pending' = Pending /\ StoredIds' = StoredIds
  BY <1>1, <1>4 DEF RedisTime, Pending, StoredIds
<1>6. delayed' = {Sooner(p) : p \in delayed} /\ delayed \subseteq StreamPayload
  BY RedisFacts DEF RedisTime
<1>7. /\ delayed' \subseteq StreamPayload
      /\ \A p \in delayed' : \E r \in delayed : p = Sooner(r) /\ p.env = r.env
      /\ \A r \in delayed : \E p \in delayed' : p.env = r.env
  BY <1>2, <1>6
<1>f. IsFiniteSet(delayed')
  <2>1. [p \in delayed |-> Sooner(p)] \in Surjection(delayed, delayed')
    BY <1>6 DEF Surjection
  <2>. QED BY <2>1, RedisFacts, FS_Surjection
<1>8. RedisTypeOK'
  BY <1>1, <1>4, <1>5, <1>7, <1>f DEF RedisInv, RedisTypeOK, StreamPayload
<1>9. AllDue'
  <2>1. \A i \in DOMAIN entries : entries[i].wait \in Int /\ entries'[i].wait \in Int /\ entries[i].wait <= 0
    <3>1. \A i \in DOMAIN entries : entries[i] \in StreamPayload /\ entries'[i] \in StreamPayload
      BY <1>3, <1>4, SMT
    <3>. QED BY <3>1 DEF RedisInv, AllDue, StreamPayload
  <2>. QED BY <1>4, <2>1, SMT DEF AllDue
<1>10. NoneDoubled'
  <2>1. NoneDoubled /\ StoredIds \subseteq DOMAIN entries
    BY RedisFacts DEF RedisInv
  <2>2. \A i \in StoredIds' : /\ ~Settled(entries'[i].env)
                              /\ \A j \in StoredIds' : entries'[i].env = entries'[j].env => i = j
    BY <1>1, <1>4, <1>5, <2>1, SMT DEF NoneDoubled, Settled
  <2>3. \A p \in delayed' : /\ ~Settled(p.env)
                            /\ \A i \in StoredIds' : entries'[i].env # p.env
                            /\ \A r \in delayed' : p.env = r.env => p = r
    BY <1>4, <1>5, <1>7, <2>1, SMT DEF NoneDoubled
  <2>. QED BY <1>1, <2>2, <2>3 DEF NoneDoubled, Settled
<1>11. NoneLost'
  <2>1. ASSUME NEW i \in DOMAIN entries
        PROVE  \/ entries[i].env \in acked \cup dropped
               \/ \E j \in StoredIds : entries'[j].env = entries[i].env
               \/ \E p \in delayed' : p.env = entries[i].env
    BY <1>4, <1>7, RedisFacts, SMT DEF RedisInv, NoneLost, IsStored, Settled
  <2>. QED BY <1>1, <1>4, <1>5, <2>1 DEF NoneLost, IsStored, Settled
<1>12. /\ \A c \in Consumers : consumer'[c].at = "lease" => consumer'[c].id \in DOMAIN entries'
       /\ \A e \in acked' \cup dropped' : \E i \in DOMAIN entries' : entries'[i].env = e
  BY <1>1, <1>4 DEF RedisInv
<1>. QED BY <1>8, <1>9, <1>10, <1>11, <1>12 DEF RedisInv

\* A consumer that goes back to the top of dequeue, or on from it, leases nothing.
LEMMA GoesKeepsLeases ==
    ASSUME RedisInv, NEW c \in Consumers, NEW step \in {"idle", "claim"}, Goes(c, At(step))
    PROVE  /\ consumer' \in [Consumers -> ConsumerState]
           /\ \A d \in Consumers : consumer'[d].at = "lease" => consumer'[d] = consumer[d]
<1>1. At(step) \in ConsumerState /\ At(step).at # "lease"
  BY AtTyped
<1>. QED BY <1>1, RedisFacts DEF Goes

LEMMA OneEntry ==
    ASSUME NEW p \in StreamPayload
    PROVE  /\ <<p>> \in Seq(StreamPayload) /\ Len(<<p>>) = 1
           /\ \A i \in 1..Len(<<p>>) : i = 1 /\ <<p>>[i] = p
BY SMT

LEMMA NoEntry ==
    ASSUME RedisInv
    PROVE  /\ <<>> \in Seq(StreamPayload) /\ Len(<<>>) = 0 /\ entries \o <<>> = entries
           /\ \A i \in 1..Len(<<>>) : FALSE
BY RedisFacts, SMT

LEMMA EnqueueKeeps ==
    ASSUME RedisInv, NEW e \in QueuedEnvelopes, NEW delay \in RedisDelays, enqueue(e, delay)
    PROVE  RedisInv'
<1>1. UNCHANGED <<delivered, pel, consumer, buffer, leased, acked, dropped>> /\ e \notin Enqueued
  BY DEF enqueue
<1>2. delay \in Nat
  BY RedisConstants
<1>3. CASE delayed' = delayed \cup {Payload(e, delay)} /\ entries' = entries
  <2>. DEFINE N == {Payload(e, delay)}
  <2>1. N \subseteq StreamPayload /\ IsFiniteSet(N) /\ \A p \in N : p.env = e /\ p = Payload(e, delay)
    <3>1. Payload(e, delay) \in StreamPayload /\ Payload(e, delay).env = e
      BY <1>2, SMT DEF Payload, StreamPayload
    <3>2. IsFiniteSet({Payload(e, delay)})
      BY FS_Singleton
    <3>. QED BY <3>1, <3>2
  <2>2. delayed' = (delayed \ {}) \cup N
    BY <1>3
  <2>3. \A x : Comes(<<>>, N, x) => x = e
    BY <2>1, NoEntry DEF Comes
  <2>4. \A x : ~Leaves({}, {}, x)
    BY DEF Leaves
  <2>5. DOMAIN pel' = Pending \ {} /\ entries' = entries \o <<>>
    BY <1>1, <1>3, NoEntry DEF Pending
  <2>. HIDE DEF N
  <2>6. Moves(<<>>, {}, {}, N, {})
    BY <1>1, <2>1, <2>2, <2>3, <2>4, <2>5, NoEntry, RedisFacts DEF Moves
  <2>. QED BY <2>6, MoveKeeps
<1>4. CASE entries' = entries \o <<Payload(e, 0)>> /\ delayed' = delayed
  <2>. DEFINE p == Payload(e, 0)
  <2>1. p \in StreamPayload /\ p.env = e /\ p.wait = 0
    BY SMT DEF Payload, StreamPayload
  <2>2. delayed' = (delayed \ {}) \cup {} /\ DOMAIN pel' = Pending \ {} /\ entries' = entries \o <<p>>
    BY <1>1, <1>4 DEF Pending
  <2>. HIDE DEF p
  <2>3. PICK ps : ps = <<p>>
    OBVIOUS
  <2>4. /\ ps \in Seq(StreamPayload) /\ \A i \in 1..Len(ps) : i = 1 /\ ps[i] = p
        /\ entries' = entries \o ps
    BY <2>1, <2>2, <2>3, OneEntry
  <2>5. \A x : Comes(ps, {}, x) => x = e
    BY <2>1, <2>4 DEF Comes
  <2>6. \A x : ~Leaves({}, {}, x)
    BY DEF Leaves
  <2>7. \A i \in 1..Len(ps) : ps[i].wait <= 0
    BY <2>1, <2>4, SMT
  <2>8. Moves(ps, {}, {}, {}, {})
    BY <1>1, <2>2, <2>4, <2>5, <2>6, <2>7, RedisFacts, FS_EmptySet DEF Moves
  <2>. QED BY <2>8, MoveKeeps
<1>. QED BY <1>3, <1>4 DEF enqueue, XADD

\* What Earliest returns: different members of S.
LEMMA EarliestOf ==
    ASSUME NEW S \in SUBSET StreamPayload, IsFiniteSet(S), NEW ps \in Earliest(S)
    PROVE  /\ ps \in Seq(StreamPayload) /\ Range(ps) \subseteq S
           /\ \A i \in 1..Len(ps) : ps[i] \in S
           /\ \A p \in Range(ps) : \E i \in 1..Len(ps) : ps[i] = p
           /\ \A i, j \in 1..Len(ps) : ps[i] = ps[j] => i = j
<1>1. PICK T \in SUBSET S : ps \in SetToSeqs(T)
  BY DEF Earliest
<1>2. Cardinality(T) \in Nat
  BY FS_Subset, FS_CardinalityType
<1>3. ps \in [1..Cardinality(T) -> T] /\ \A i, j \in 1..Cardinality(T) : i # j => ps[i] # ps[j]
  BY <1>1 DEF SetToSeqs
<1>4. ps \in Seq(T) /\ DOMAIN ps = 1..Len(ps)
  BY <1>2, <1>3, SMT
<1>5. ps \in Seq(StreamPayload)
  <2>1. ps \in [1..Len(ps) -> StreamPayload] /\ Len(ps) \in Nat
    BY <1>1, <1>3, <1>4, SMT
  <2>. QED BY <2>1, SMT
<1>. QED BY <1>3, <1>4, <1>5 DEF Range

LEMMA DequeueKeeps ==
    ASSUME RedisInv, NEW c \in Consumers, dequeue(c) PROVE RedisInv'
<1>1. UNCHANGED <<delivered, pel, buffer, leased, acked, dropped>> /\ Goes(c, At("claim"))
  BY DEF dequeue
<1>2. PICK S : S = {p \in delayed : p.wait + Lag[c] <= 0}
  OBVIOUS
<1>3. PICK ps \in Earliest(S) : entries' = entries \o ps /\ delayed' = delayed \ Range(ps)
  BY <1>2 DEF dequeue, PROMOTE_DELAYED_LUA, XADD
<1>4. S \subseteq delayed /\ S \subseteq StreamPayload /\ IsFiniteSet(S)
  BY <1>2, RedisFacts, FS_Subset
<1>5. \A p \in S : p.wait <= 0
  <2>1. Lag[c] \in Nat
    BY RedisConstants, SMT
  <2>. QED BY <1>2, <1>4, <2>1, SMT DEF StreamPayload
<1>6. /\ ps \in Seq(StreamPayload) /\ Range(ps) \subseteq S
      /\ \A i \in 1..Len(ps) : ps[i] \in S
      /\ \A p \in Range(ps) : \E i \in 1..Len(ps) : ps[i] = p
      /\ \A i, j \in 1..Len(ps) : ps[i] = ps[j] => i = j
  BY <1>4, EarliestOf
<1>7. \A i, j \in 1..Len(ps) : ps[i].env = ps[j].env => i = j
  BY <1>4, <1>6 DEF RedisInv, NoneDoubled
<1>8. PICK D : D = Range(ps)
  OBVIOUS
<1>8a. \A i \in 1..Len(ps) : ps[i] \in D
  BY <1>6, <1>8, SMT DEF Range
<1>9. \A x : Comes(ps, {}, x) <=> Leaves({}, D, x)
  BY <1>6, <1>8, <1>8a DEF Comes, Leaves
<1>10. \A i \in 1..Len(ps) : ps[i].wait <= 0
  BY <1>5, <1>6
<1>11. /\ D \subseteq delayed /\ delayed' = (delayed \ D) \cup {}
       /\ DOMAIN pel' = Pending \ {} /\ acked' \cup dropped' = acked \cup dropped \cup {}
  BY <1>1, <1>3, <1>4, <1>6, <1>8 DEF Pending
<1>12. /\ consumer' \in [Consumers -> ConsumerState]
       /\ \A d \in Consumers : consumer'[d].at = "lease" => consumer'[d] = consumer[d]
  BY <1>1, GoesKeepsLeases
<1>13. Moves(ps, {}, D, {}, {})
  BY <1>1, <1>3, <1>6, <1>7, <1>9, <1>10, <1>11, <1>12, RedisFacts, FS_EmptySet DEF Moves
<1>. QED BY <1>13, MoveKeeps

\* The entry id of the pending ones goes, and its envelope is settled.
LEMMA SettleKeeps ==
    ASSUME RedisInv, NEW id \in DOMAIN entries, pel' = Without(id),
           UNCHANGED <<entries, delivered, delayed, buffer>>,
           acked' \cup dropped' =
               acked \cup dropped \cup (IF id \in Pending THEN {entries[id].env} ELSE {}),
           consumer' \in [Consumers -> ConsumerState],
           \A d \in Consumers : consumer'[d].at = "lease" => consumer'[d] = consumer[d],
           leased' \in [Consumers -> SUBSET DOMAIN entries]
    PROVE  RedisInv'
<1>1. DOMAIN pel' = Pending \ {id}
  BY DEF Without
<1>2. entries[id].env \in QueuedEnvelopes
  <2>1. entries[id] \in StreamPayload
    BY RedisFacts, SMT
  <2>. QED BY <2>1 DEF StreamPayload
<1>a. PICK G : G = IF id \in Pending THEN {id} ELSE {}
  OBVIOUS
<1>b. PICK A : A = IF id \in Pending THEN {entries[id].env} ELSE {}
  OBVIOUS
<1>3. /\ G = IF id \in Pending THEN {id} ELSE {}
      /\ A = IF id \in Pending THEN {entries[id].env} ELSE {}
  BY <1>a, <1>b
<1>4. /\ G \subseteq Pending /\ DOMAIN pel' = Pending \ G /\ A \subseteq QueuedEnvelopes
      /\ acked' \cup dropped' = acked \cup dropped \cup A
  BY <1>1, <1>2, <1>3
<1>5. \A x : Leaves(G, {}, x) <=> x \in A
  BY <1>3 DEF Leaves
<1>6. \A x : ~Comes(<<>>, {}, x)
  BY NoEntry DEF Comes
<1>7. \A x \in A : \E i \in DOMAIN entries : entries[i].env = x
  BY <1>3
<1>8. entries' = entries \o <<>> /\ delayed' = (delayed \ {}) \cup {}
  BY NoEntry
<1>9. Moves(<<>>, G, {}, {}, A)
  BY <1>4, <1>5, <1>6, <1>7, <1>8, NoEntry, FS_EmptySet DEF Moves
<1>. QED BY <1>9, MoveKeeps

\* _ACK_AND_REQUEUE_LUA, with what its caller does.
LEMMA RequeueKeeps ==
    ASSUME RedisInv, NEW id \in DOMAIN entries, NEW p \in StreamPayload, NEW immediate \in BOOLEAN,
           ACK_AND_REQUEUE_LUA(id, p, immediate), p.env = entries[id].env,
           immediate => p.wait <= 0,
           UNCHANGED <<delivered, buffer, acked, dropped>>,
           consumer' \in [Consumers -> ConsumerState],
           \A d \in Consumers : consumer'[d].at = "lease" => consumer'[d] = consumer[d],
           leased' \in [Consumers -> SUBSET DOMAIN entries]
    PROVE  RedisInv'
<1>0. /\ DOMAIN Without(id) = Pending \ {id}
      /\ \A x : Leaves({id}, {}, x) <=> x = p.env
  BY DEF Without, Leaves
<1>1. CASE id \notin Pending /\ UNCHANGED <<entries, pel, delayed>>
  <2>1. entries' = entries \o <<>> /\ delayed' = (delayed \ {}) \cup {} /\ DOMAIN pel' = Pending \ {}
    BY <1>1, NoEntry DEF Pending
  <2>2. \A x : ~Comes(<<>>, {}, x) /\ ~Leaves({}, {}, x)
    BY NoEntry DEF Comes, Leaves
  <2>3. Moves(<<>>, {}, {}, {}, {})
    BY <2>1, <2>2, NoEntry, FS_EmptySet DEF Moves
  <2>. QED BY <2>3, MoveKeeps
<1>2. CASE id \in Pending /\ pel' = Without(id) /\ immediate /\ entries' = entries \o <<p>> /\ delayed' = delayed
  <2>1. PICK ps : ps = <<p>>
    OBVIOUS
  <2>2. /\ ps \in Seq(StreamPayload) /\ \A i \in 1..Len(ps) : i = 1 /\ ps[i] = p
        /\ 1 \in 1..Len(ps) /\ ps[1] = p
        /\ entries' = entries \o ps /\ delayed' = (delayed \ {}) \cup {}
    BY <1>2, <2>1, OneEntry, SMT
  <2>3. \A x : Comes(ps, {}, x) <=> x = p.env
    BY <2>2 DEF Comes
  <2>4. DOMAIN pel' = Pending \ {id} /\ {id} \subseteq Pending
    BY <1>0, <1>2
  <2>5. \A i \in 1..Len(ps) : ps[i].wait <= 0
    BY <1>2, <2>2
  <2>6. Moves(ps, {id}, {}, {}, {})
    BY <1>0, <2>2, <2>3, <2>4, <2>5, FS_EmptySet DEF Moves
  <2>. QED BY <2>6, MoveKeeps
<1>3. CASE id \in Pending /\ pel' = Without(id) /\ delayed' = delayed \cup {p} /\ entries' = entries
  <2>1. PICK N : N = {p}
    OBVIOUS
  <2>2. /\ N \subseteq StreamPayload /\ IsFiniteSet(N) /\ p \in N /\ \A q \in N : q = p
        /\ entries' = entries \o <<>> /\ delayed' = (delayed \ {}) \cup N
    BY <1>3, <2>1, NoEntry, FS_Singleton
  <2>3. \A x : Comes(<<>>, N, x) <=> x = p.env
    BY <2>2, NoEntry DEF Comes
  <2>4. DOMAIN pel' = Pending \ {id} /\ {id} \subseteq Pending
    BY <1>0, <1>3
  <2>5. Moves(<<>>, {id}, {}, N, {})
    BY <1>0, <2>2, <2>3, <2>4, NoEntry DEF Moves
  <2>. QED BY <2>5, MoveKeeps
<1>. QED BY <1>1, <1>2, <1>3 DEF ACK_AND_REQUEUE_LUA, XADD

LEMMA LeaseKeeps ==
    ASSUME RedisInv, NEW c \in Consumers, Lease(c) PROVE RedisInv'
<1>1. PICK id : id = consumer[c].id
  OBVIOUS
<1>2. id \in DOMAIN entries /\ entries[id] \in StreamPayload
  BY <1>1, RedisFacts, SMT DEF Lease
<1>3. UNCHANGED <<delivered, buffer, acked, dropped>> /\ Goes(c, At("idle"))
  BY DEF Lease
<1>4. /\ consumer' \in [Consumers -> ConsumerState]
      /\ \A d \in Consumers : consumer'[d].at = "lease" => consumer'[d] = consumer[d]
  BY <1>3, GoesKeepsLeases
<1>5. CASE ACK_AND_REQUEUE_LUA(id, entries[id], FALSE) /\ leased' = leased
  BY <1>2, <1>3, <1>4, <1>5, RedisFacts, RequeueKeeps
<1>6. CASE leased' = [leased EXCEPT ![c] = @ \cup {id}] /\ UNCHANGED <<entries, pel, delayed>>
  <2>1. leased' \in [Consumers -> SUBSET DOMAIN entries]
    BY <1>2, <1>6, RedisFacts
  <2>2. StoredIds' = StoredIds /\ Pending' = Pending
    BY <1>3, <1>6 DEF StoredIds, Pending
  <2>. QED BY <1>3, <1>4, <1>6, <2>1, <2>2, RedisFacts, StayKeeps
<1>. QED BY <1>1, <1>5, <1>6 DEF Lease

LEMMA DropKeeps ==
    ASSUME RedisInv, NEW c \in Consumers, drop_invalid_entry(c) PROVE RedisInv'
<1>1. PICK id : id = consumer[c].id
  OBVIOUS
<1>2. id \in DOMAIN entries
  BY <1>1, RedisFacts DEF drop_invalid_entry
<1>3. /\ UNCHANGED <<entries, delivered, delayed, buffer, leased, acked>> /\ Goes(c, At("idle"))
      /\ pel' = Without(id)
      /\ dropped' = IF id \in Pending THEN dropped \cup {entries[id].env} ELSE dropped
  BY <1>1 DEF drop_invalid_entry
<1>4. acked' \cup dropped' =
          acked \cup dropped \cup (IF id \in Pending THEN {entries[id].env} ELSE {})
  BY <1>3
<1>. QED BY <1>2, <1>3, <1>4, GoesKeepsLeases, RedisFacts, SettleKeeps

LEMMA AckKeeps ==
    ASSUME RedisInv, NEW c \in Consumers, NEW id \in leased[c], ack(c, id) PROVE RedisInv'
<1>1. id \in DOMAIN entries
  BY RedisFacts
<1>2. /\ UNCHANGED <<entries, delivered, delayed, buffer, consumer, dropped>>
      /\ pel' = Without(id)
      /\ acked' = IF id \in Pending THEN acked \cup {entries[id].env} ELSE acked
      /\ leased' = [leased EXCEPT ![c] = @ \ {id}]
  BY DEF ack
<1>3. acked' \cup dropped' =
          acked \cup dropped \cup (IF id \in Pending THEN {entries[id].env} ELSE {})
  BY <1>2
<1>4. leased' \in [Consumers -> SUBSET DOMAIN entries]
  BY <1>2, RedisFacts
<1>. QED BY <1>1, <1>2, <1>3, <1>4, RedisFacts, SettleKeeps

LEMMA NackKeeps ==
    ASSUME RedisInv, NEW c \in Consumers, NEW id \in leased[c], NEW delay \in RedisDelays,
           nack(c, id, delay)
    PROVE  RedisInv'
<1>1. id \in DOMAIN entries /\ entries[id] \in StreamPayload
  BY RedisFacts, SMT
<1>2. PICK p : p = Payload(entries[id].env, delay - Lag[c])
  OBVIOUS
<1>3. /\ UNCHANGED <<delivered, buffer, consumer, acked, dropped>>
      /\ ACK_AND_REQUEUE_LUA(id, p, delay = 0)
      /\ leased' = [leased EXCEPT ![c] = @ \ {id}]
  BY <1>2 DEF nack
<1>4. delay \in Nat /\ Lag[c] \in Nat
  BY RedisConstants, SMT
<1>5. p \in StreamPayload /\ p.env = entries[id].env /\ (delay = 0 => p.wait <= 0)
  BY <1>1, <1>2, <1>4, SMT DEF Payload, StreamPayload
<1>6. leased' \in [Consumers -> SUBSET DOMAIN entries]
  BY <1>3, RedisFacts
<1>7. PICK b \in BOOLEAN : b = (delay = 0)
  OBVIOUS
<1>8. ACK_AND_REQUEUE_LUA(id, p, b)
  BY <1>3, <1>7
<1>. QED BY <1>1, <1>3, <1>5, <1>6, <1>7, <1>8, RedisFacts, RequeueKeeps

LEMMA RedisStart == RedisInit => RedisInv
<1>. SUFFICES ASSUME RedisInit PROVE RedisInv
  OBVIOUS
<1>1. entries = <<>> /\ DOMAIN entries = {} /\ Len(entries) = 0 /\ Pending = {} /\ StoredIds = {}
  BY SMT DEF RedisInit, Pending, StoredIds
<1>2. At("idle") \in ConsumerState /\ At("idle").at = "idle"
  BY AtTyped
<1>3. consumer = [c \in Consumers |-> At("idle")]
  BY DEF RedisInit
<1>4. RedisTypeOK
  BY <1>1, <1>2, <1>3, FS_EmptySet, SMT DEF RedisInit, RedisTypeOK, ConsumerState
<1>5. AllDue /\ NoneDoubled /\ NoneLost
  BY <1>1 DEF RedisInit, AllDue, NoneDoubled, NoneLost
<1>6. \A c \in Consumers : consumer[c].at # "lease"
  BY <1>2, <1>3
<1>7. acked \cup dropped = {}
  BY DEF RedisInit
<1>. QED BY <1>4, <1>5, <1>6, <1>7 DEF RedisInv

LEMMA RedisStep == RedisInv /\ [RedisNext]_redis_vars => RedisInv'
<1>. SUFFICES ASSUME RedisInv, [RedisNext]_redis_vars PROVE RedisInv'
  OBVIOUS
<1>1. CASE UNCHANGED redis_vars
  <2>1. StoredIds' = StoredIds /\ Pending' = Pending
    BY <1>1 DEF redis_vars, StoredIds, Pending
  <2>. QED BY <1>1, <2>1, RedisFacts, StayKeeps DEF redis_vars
<1>2. ASSUME NEW e \in QueuedEnvelopes, NEW d \in RedisDelays, enqueue(e, d) PROVE RedisInv'
  BY <1>2, EnqueueKeeps
<1>3. ASSUME NEW c \in Consumers, dequeue(c) PROVE RedisInv'
  BY <1>3, DequeueKeeps
<1>4. ASSUME NEW c \in Consumers, try_claim_expired(c) \/ try_claim_expired_fallback(c)
      PROVE  RedisInv'
  BY <1>4, ClaimKeeps
<1>5. ASSUME NEW c \in Consumers, xreadgroup(c) PROVE RedisInv'
  BY <1>5, ReadKeeps
<1>6. ASSUME NEW c \in Consumers, Lease(c) PROVE RedisInv'
  BY <1>6, LeaseKeeps
<1>7. ASSUME NEW c \in Consumers, drop_invalid_entry(c) PROVE RedisInv'
  BY <1>7, DropKeeps
<1>8. ASSUME NEW c \in Consumers, ConsumerRestarts(c) PROVE RedisInv'
  BY <1>8, RestartKeeps
<1>9. ASSUME NEW c \in Consumers, NEW id \in leased[c], ack(c, id) PROVE RedisInv'
  BY <1>9, AckKeeps
<1>10. ASSUME NEW c \in Consumers, NEW id \in leased[c], NEW d \in RedisDelays, nack(c, id, d)
       PROVE  RedisInv'
  BY <1>10, NackKeeps
<1>11. CASE RedisTime
  BY <1>11, TimeKeeps
<1>. QED BY <1>1, <1>2, <1>3, <1>4, <1>5, <1>6, <1>7, <1>8, <1>9, <1>10, <1>11 DEF RedisNext

\* The invariant counts every envelope once.
LEMMA CountedOnce == RedisInv => StoredOnce
<1>. SUFFICES ASSUME RedisInv, NEW e \in Enqueued
              PROVE  Copies(e) = IF e \in acked \cup dropped THEN 0 ELSE 1
  BY DEF StoredOnce
<1>. DEFINE I == {i \in StoredIds : entries[i].env = e}
            P == {p \in delayed : p.env = e}
<1>1. NoneDoubled /\ NoneLost
  BY DEF RedisInv
<1>2. CASE e \in acked \cup dropped
  <2>1. I = {} /\ P = {}
    BY <1>1, <1>2 DEF NoneDoubled, Settled
  <2>. QED BY <1>2, <2>1, FS_EmptySet, SMT DEF Copies
<1>3. CASE e \notin acked \cup dropped
  <2>1. IsStored(e)
    BY <1>1, <1>3 DEF Enqueued, NoneLost, IsStored, Settled
  <2>2. CASE \E i \in StoredIds : entries[i].env = e
    <3>1. PICK i \in StoredIds : entries[i].env = e
      BY <2>2
    <3>2. I = {i}
      BY <1>1, <3>1 DEF NoneDoubled
    <3>3. P = {}
      BY <1>1, <3>1 DEF NoneDoubled
    <3>4. Cardinality(I) = 1 /\ Cardinality(P) = 0
      BY <3>2, <3>3, FS_EmptySet, FS_Singleton
    <3>. QED BY <1>3, <3>4, SMT DEF Copies
  <2>3. CASE \E p \in delayed : p.env = e
    <3>1. PICK p \in delayed : p.env = e
      BY <2>3
    <3>2. P = {p}
      BY <1>1, <3>1 DEF NoneDoubled
    <3>3. I = {}
      BY <1>1, <3>1 DEF NoneDoubled
    <3>4. Cardinality(P) = 1 /\ Cardinality(I) = 0
      BY <3>2, <3>3, FS_EmptySet, FS_Singleton
    <3>. QED BY <1>3, <3>4, SMT DEF Copies
  <2>. QED BY <2>1, <2>2, <2>3 DEF IsStored
<1>. QED BY <1>2, <1>3

\* For any number of consumers, clocks that lag as they may, any batch sizes and any crashes:
\* an envelope RedisStreamsQueue accepted is in the stream, pending or delayed, at exactly one
\* place, until it is acked or dropped (the scripts of lua.py).
THEOREM EnvelopesAreStoredOnce == RedisSpec => []StoredOnce
<1>1. RedisSpec => []RedisInv
  BY RedisStart, RedisStep, PTL DEF RedisSpec
<1>. QED BY <1>1, CountedOnce, PTL

\* dequeue of RedisStreamsQueue gives out no lease before available_at_ms, however far apart
\* promotion, XREADGROUP and the lease are.
THEOREM NoneIsLeasedEarly == RedisSpec => NotLeasedEarly
<1>1. RedisSpec => []RedisInv
  BY RedisStart, RedisStep, PTL DEF RedisSpec
<1>2. RedisInv /\ [RedisNext]_redis_vars =>
        [\A c \in Consumers : \A id \in leased'[c] \ leased[c] : entries[id].wait <= 0]_redis_vars
  <2>. SUFFICES ASSUME RedisInv, RedisNext, RedisInv', NEW c \in Consumers,
                       NEW id \in leased'[c] \ leased[c]
                PROVE  entries[id].wait <= 0
    BY RedisStep
  <2>1. ASSUME \A d \in Consumers : leased'[d] \subseteq leased[d] PROVE FALSE
    BY <2>1
  <2>2. ASSUME NEW d \in Consumers, Lease(d), leased' # leased PROVE id \in DOMAIN entries
    <3>1. leased' = [leased EXCEPT ![d] = @ \cup {consumer[d].id}] /\ consumer[d].at = "lease"
      BY <2>2 DEF Lease
    <3>. QED BY <3>1, RedisFacts
  <2>3. ASSUME NEW d \in Consumers, NEW i \in leased[d], leased' = [leased EXCEPT ![d] = @ \ {i}]
        PROVE  FALSE
    BY <2>3, RedisFacts
  <2>4. ASSUME NEW d \in Consumers, ConsumerRestarts(d) PROVE FALSE
    BY <2>4, RedisFacts DEF ConsumerRestarts
  <2>5. \/ leased' = leased
        \/ \E d \in Consumers : Lease(d)
        \/ \E d \in Consumers : \E i \in leased[d] : leased' = [leased EXCEPT ![d] = @ \ {i}]
        \/ \E d \in Consumers : ConsumerRestarts(d)
    BY DEF RedisNext, enqueue, dequeue, try_claim_expired, try_claim_expired_fallback, xreadgroup,
           drop_invalid_entry, ack, nack, RedisTime
  <2>6. id \in DOMAIN entries
    BY <2>2, <2>3, <2>4, <2>5
  <2>. QED BY <2>6 DEF RedisInv, AllDue
<1>. QED BY <1>1, <1>2, PTL DEF RedisSpec, NotLeasedEarly
============================================================================
