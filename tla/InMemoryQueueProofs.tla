------------------------ MODULE InMemoryQueueProofs ------------------------
(***************************************************************************)
(* Proofs about InMemoryQueue.  Each helper of the package turns a queue   *)
(* record satisfying QueueInv(_, n, H) into another one; a lemma per       *)
(* helper says which envelopes H it leaves homeless or gives a home.  The  *)
(* operations compose helpers, so their proofs compose the lemmas.         *)
(***************************************************************************)
EXTENDS InMemoryQueue, TLAPS, FiniteSetTheorems, SequenceTheorems

\* Most steps are first-order; those that count or expand records cite SMT.
USE Zenon

----------------------------------------------------------------------------
(* HeapOrders *)

\* A batch drained from a heap lists every due envelope exactly once.
LEMMA HeapOrdersList ==
    ASSUME NEW S \in SUBSET Envelopes, NEW key, NEW b \in HeapOrders(S, key)
    PROVE  /\ b \in Seq(Envelopes)
           /\ Range(b) = S
           /\ \A i, j \in DOMAIN b : b[i] = b[j] => i = j
<1>1. IsFiniteSet(S)
  BY EnvelopesFinite, FS_Subset
<1>2. Cardinality(S) \in Nat
  BY <1>1, FS_CardinalityType
<1>3. b \in [1..Cardinality(S) -> S]
  BY DEF HeapOrders
<1>4. b \in Seq(Envelopes)
  BY <1>2, <1>3, SMT
<1>5. Range(b) = S
  BY <1>3, SMT DEF HeapOrders, Range
<1>6. ASSUME NEW i \in DOMAIN b, NEW j \in DOMAIN b, b[i] = b[j] PROVE i = j
  <2>1. i \in Int /\ j \in Int /\ DOMAIN b = 1..Cardinality(S)
    BY <1>2, <1>3, SMT
  <2>2. ~(i < j) /\ ~(j < i)
    BY <1>6 DEF HeapOrders
  <2>. QED BY <2>1, <2>2, SMT
<1>. QED BY <1>4, <1>5, <1>6

----------------------------------------------------------------------------
(* push_ready *)

LEMMA MarkReadyFields ==
    ASSUME NEW st, StatesOK(st), NEW B
    PROVE  /\ StatesOK(MarkReady(st, B))
           /\ DOMAIN MarkReady(st, B) = DOMAIN st
           /\ \A e \in DOMAIN st :
                /\ MarkReady(st, B)[e].next_attempt = st[e].next_attempt
                /\ MarkReady(st, B)[e].active_lease_id = st[e].active_lease_id
                /\ MarkReady(st, B)[e].available_at_ms = st[e].available_at_ms
                /\ MarkReady(st, B)[e].in_ready <=> (st[e].in_ready \/ e \in B)
BY DEF MarkReady, StatesOK, EnvelopeState

\* Appending a batch of homeless envelopes to _ready.
LEMMA PushReadyReady ==
    ASSUME NEW st, StatesOK(st), NEW rd \in Seq(Envelopes), NEW b \in Seq(Envelopes), NEW de,
           ReadyExact(st, rd), Housed(st, de, Range(b)),
           \A i, j \in DOMAIN b : b[i] = b[j] => i = j
    PROVE  ReadyExact(MarkReady(st, Range(b)), rd \o b)
<1>. DEFINE st2 == MarkReady(st, Range(b))
            rd2 == rd \o b
<1>1. /\ DOMAIN st2 = DOMAIN st
      /\ \A e \in DOMAIN st : st2[e].in_ready <=> (st[e].in_ready \/ e \in Range(b))
  BY MarkReadyFields
<1>2. /\ \A i \in 1..(Len(rd) + Len(b)) :
            rd2[i] = IF i <= Len(rd) THEN rd[i] ELSE b[i - Len(rd)]
      /\ DOMAIN rd = 1..Len(rd) /\ Len(rd) \in Nat
      /\ DOMAIN b = 1..Len(b) /\ Len(b) \in Nat
      /\ DOMAIN rd2 = 1..(Len(rd) + Len(b))
  BY ConcatProperties, LenProperties, SMT
<1>3. \A k \in DOMAIN b : b[k] \in Range(b)
  BY DEF Range
<1>4. \A e \in Range(b) : e \in DOMAIN st /\ ~st[e].in_ready
  BY DEF Housed, Homeless
<1>. HIDE DEF st2, rd2
<1>5. ASSUME NEW i \in DOMAIN rd2
      PROVE  rd2[i] \in DOMAIN st2 /\ st2[rd2[i]].in_ready
  <2>1. CASE i <= Len(rd)
    BY <2>1, <1>1, <1>2, SMT DEF ReadyExact
  <2>2. CASE ~(i <= Len(rd))
    <3>1. i - Len(rd) \in DOMAIN b /\ rd2[i] = b[i - Len(rd)]
      BY <2>2, <1>2, SMT
    <3>. QED BY <3>1, <1>1, <1>3, <1>4
  <2>. QED BY <2>1, <2>2
<1>6. ASSUME NEW e \in DOMAIN st2, st2[e].in_ready
      PROVE  InReady(rd2, e)
  <2>1. CASE st[e].in_ready
    <3>1. PICK i \in DOMAIN rd : rd[i] = e
      BY <2>1, <1>1 DEF ReadyExact, InReady
    <3>. QED BY <3>1, <1>2, SMT DEF InReady
  <2>2. CASE e \in Range(b)
    <3>1. PICK j \in DOMAIN b : b[j] = e
      BY <2>2 DEF Range
    <3>2. j + Len(rd) \in DOMAIN rd2 /\ rd2[j + Len(rd)] = e
      BY <3>1, <1>2, SMT
    <3>. QED BY <3>2 DEF InReady
  <2>. QED BY <2>1, <2>2, <1>1, <1>6
<1>7. ASSUME NEW i \in DOMAIN rd2, NEW j \in DOMAIN rd2, rd2[i] = rd2[j]
      PROVE  i = j
  <2>1. \A k \in DOMAIN rd, m \in DOMAIN b : rd[k] # b[m]
    BY <1>3, <1>4 DEF ReadyExact
  <2>2. CASE i <= Len(rd) /\ j <= Len(rd)
    BY <2>2, <1>7, <1>2, SMT DEF ReadyExact
  <2>3. CASE i <= Len(rd) /\ ~(j <= Len(rd))
    BY <2>1, <2>3, <1>7, <1>2, SMTT(60)
  <2>4. CASE ~(i <= Len(rd)) /\ j <= Len(rd)
    BY <2>1, <2>4, <1>7, <1>2, SMT
  <2>5. CASE ~(i <= Len(rd)) /\ ~(j <= Len(rd))
    <3>1. i - Len(rd) \in DOMAIN b /\ j - Len(rd) \in DOMAIN b
      BY <2>5, <1>2, SMT
    <3>2. b[i - Len(rd)] = b[j - Len(rd)]
      BY <2>5, <1>7, <1>2
    <3>3. i - Len(rd) = j - Len(rd)
      BY <3>1, <3>2
    <3>. QED BY <3>3, <1>2, SMT
  <2>. QED BY <2>2, <2>3, <2>4, <2>5
<1>. QED BY <1>5, <1>6, <1>7 DEF ReadyExact, st2, rd2

LEMMA PushReadyOthers ==
    ASSUME NEW st, StatesOK(st), NEW B, NEW fl, NEW dl, NEW de,
           LeasesExact(st, fl, dl), DelayedExact(st, de), Housed(st, de, B),
           de \subseteq Nat \X Envelopes
    PROVE  /\ LeasesExact(MarkReady(st, B), fl, dl)
           /\ DelayedExact(MarkReady(st, B), de)
           /\ Housed(MarkReady(st, B), de, {})
<1>. DEFINE st2 == MarkReady(st, B)
<1>1. /\ DOMAIN st2 = DOMAIN st
      /\ \A e \in DOMAIN st :
           /\ st2[e].active_lease_id = st[e].active_lease_id
           /\ st2[e].available_at_ms = st[e].available_at_ms
           /\ st2[e].in_ready <=> (st[e].in_ready \/ e \in B)
  BY MarkReadyFields
<1>. HIDE DEF st2
<1>2. LeasesExact(st2, fl, dl)
  BY <1>1, ZenonT(60) DEF LeasesExact, LeasesCurrent, Leased, UnderLease, Housed, Homeless
<1>3. DelayedExact(st2, de)
  BY <1>1 DEF DelayedExact, Leased, Housed, Homeless
<1>4. Housed(st2, de, {})
  BY <1>1 DEF Leased, Housed, Homeless, InDelayed
<1>. QED BY <1>2, <1>3, <1>4 DEF st2

\* push_ready houses exactly the homeless envelopes it is given.
LEMMA PushReadyInv ==
    ASSUME NEW s, NEW n \in Nat, NEW b \in Seq(Envelopes),
           QueueInv(s, n, Range(b)),
           \A i, j \in DOMAIN b : b[i] = b[j] => i = j
    PROVE  QueueInv(push_ready(s, b), n, {})
<1>0. QueueOK(s) /\ StatesOK(s.states) /\ s.ready \in Seq(Envelopes)
      /\ s.delayed \subseteq Nat \X Envelopes
  BY DEF QueueInv, QueueOK
<1>1. PICK r : r = push_ready(s, b)
  OBVIOUS
<1>2. /\ DOMAIN r = DOMAIN s
      /\ r.states = MarkReady(s.states, Range(b))
      /\ r.ready = s.ready \o b
      /\ r.inFlight = s.inFlight
      /\ r.leaseDeadlines = s.leaseDeadlines
      /\ r.delayed = s.delayed
      /\ r.readyEvent = (s.readyEvent \/ b # <<>>)
      /\ r.waiters = IF b = <<>> THEN s.waiters ELSE {}
  BY <1>0, <1>1 DEF push_ready, QueueOK
<1>3. StatesOK(r.states)
  BY <1>0, <1>2, MarkReadyFields, SMT
<1>4. r.ready \in Seq(Envelopes)
  BY <1>0, <1>2, ConcatProperties, SMT
<1>5. QueueOK(r)
  BY <1>0, <1>2, <1>3, <1>4 DEF QueueOK
<1>6. ReadyExact(r.states, r.ready)
  BY <1>0, <1>2, PushReadyReady DEF QueueInv
<1>7. /\ LeasesExact(r.states, r.inFlight, r.leaseDeadlines)
      /\ DelayedExact(r.states, r.delayed)
      /\ Housed(r.states, r.delayed, {})
  BY <1>0, <1>2, PushReadyOthers, SMT DEF QueueInv
<1>8. WakeupOK(r.ready, r.waiters)
  BY <1>0, <1>2, ConcatEmptySeq DEF QueueInv, WakeupOK
<1>. QED BY <1>1, <1>2, <1>5, <1>6, <1>7, <1>8 DEF QueueInv

----------------------------------------------------------------------------
(* expire_leases *)

LEMMA ReleasedFields ==
    ASSUME NEW st, StatesOK(st), NEW E, NEW t \in Nat
    PROVE  /\ StatesOK(Released(st, E, t))
           /\ DOMAIN Released(st, E, t) = DOMAIN st
           /\ \A e \in DOMAIN st :
                /\ Released(st, E, t)[e].in_ready = st[e].in_ready
                /\ Released(st, E, t)[e].active_lease_id =
                       IF e \in E THEN NoLease ELSE st[e].active_lease_id
                /\ Released(st, E, t)[e].available_at_ms =
                       IF e \in E THEN t ELSE st[e].available_at_ms
BY DEF Released, StatesOK, EnvelopeState

LEMMA DropLeasesFields ==
    ASSUME NEW fl, FlightsOK(fl), NEW L
    PROVE  /\ FlightsOK(DropLeases(fl, L))
           /\ DOMAIN DropLeases(fl, L) = DOMAIN fl \ L
           /\ \A l \in DOMAIN fl \ L : DropLeases(fl, L)[l] = fl[l]
BY DEF DropLeases, FlightsOK

LEMMA DropLeasesType ==
    ASSUME NEW fl, FlightsOK(fl), NEW L
    PROVE  FlightsOK(DropLeases(fl, L)) /\ DOMAIN DropLeases(fl, L) \subseteq DOMAIN fl
BY DEF DropLeases, FlightsOK

\* No lease id is the absence of a lease.
LEMMA LeaseIdsNotNone == \A l \in LeaseIds : l # NoLease
BY NoLeaseNotInt, MaxLeasesNat, SMT DEF LeaseIds

\* Taking back the due leases leaves exactly their envelopes homeless, and every
\* other lease keeps its deadline in the heap.
LEMMA PopExpiredParts ==
    ASSUME NEW st, StatesOK(st), NEW fl, FlightsOK(fl), NEW rd, NEW t \in Nat,
           NEW dl \in SUBSET (Nat \X LeaseIds), NEW de \in SUBSET (Nat \X Envelopes),
           ReadyExact(st, rd), LeasesExact(st, fl, dl), DelayedExact(st, de),
           Housed(st, de, {})
    PROVE  LET X == TimedOut(st, fl, dl, t)
               st2 == Released(st, X, t)
               fl2 == DropLeases(fl, DueLeases(dl, t))
           IN  /\ ReadyExact(st2, rd)
               /\ LeasesExact(st2, fl2, NotDue(dl, t))
               /\ DelayedExact(st2, de)
               /\ Housed(st2, de, X)
               /\ \A e \in X : ~st[e].in_ready
<1>. DEFINE X == TimedOut(st, fl, dl, t)
            st2 == Released(st, X, t)
            fl2 == DropLeases(fl, DueLeases(dl, t))
<1>1. /\ DOMAIN st2 = DOMAIN st
      /\ \A e \in DOMAIN st :
           /\ st2[e].in_ready = st[e].in_ready
           /\ st2[e].active_lease_id = IF e \in X THEN NoLease ELSE st[e].active_lease_id
           /\ st2[e].available_at_ms = IF e \in X THEN t ELSE st[e].available_at_ms
  BY ReleasedFields, SMT
<1>2. /\ DOMAIN fl2 = DOMAIN fl \ DueLeases(dl, t)
      /\ \A l \in DOMAIN fl \ DueLeases(dl, t) : fl2[l] = fl[l]
  BY DropLeasesFields
<1>3. \A e \in X : e \in DOMAIN st /\ Leased(st, e)
  BY LeaseIdsNotNone DEF TimedOut, Leased, FlightsOK
<1>4. \A e \in DOMAIN st : Leased(st, e) /\ st[e].active_lease_id \in DueLeases(dl, t) => e \in X
  BY DEF TimedOut, LeasesExact, UnderLease
<1>5. \A l \in DOMAIN fl \ DueLeases(dl, t) : fl[l].envelope_id \notin X
  BY DEF TimedOut, LeasesExact, LeasesCurrent
<1>6. \A e \in DOMAIN st \ X :
        Leased(st, e) => <<fl[st[e].active_lease_id].deadline_ms, st[e].active_lease_id>> \in NotDue(dl, t)
  <2>. SUFFICES ASSUME NEW e \in DOMAIN st \ X, Leased(st, e)
                PROVE  <<fl[st[e].active_lease_id].deadline_ms, st[e].active_lease_id>> \in NotDue(dl, t)
    OBVIOUS
  <2>. DEFINE l == st[e].active_lease_id
              d == <<fl[l].deadline_ms, l>>
  <2>1. d \in dl /\ l \notin DueLeases(dl, t)
    BY <1>4 DEF LeasesExact, UnderLease
  <2>2. ~(d[1] <= t)
    BY <2>1, SMT DEF DueLeases
  <2>3. d[1] \in Nat
    BY <2>1
  <2>. QED BY <2>1, <2>2, <2>3, SMT DEF NotDue
<1>. HIDE DEF st2, fl2
<1>7. ReadyExact(st2, rd)
  BY <1>1 DEF ReadyExact
<1>8. LeasesExact(st2, fl2, NotDue(dl, t))
  <2>1. LeasesCurrent(st2, fl2)
    BY <1>1, <1>2, <1>5 DEF LeasesExact, LeasesCurrent
  <2>2. ASSUME NEW e \in DOMAIN st2, Leased(st2, e)
        PROVE  ~st2[e].in_ready /\ UnderLease(st2, fl2, NotDue(dl, t), e)
    <3>1. e \in DOMAIN st \ X /\ Leased(st, e) /\ st2[e].active_lease_id = st[e].active_lease_id
      BY <2>2, <1>1 DEF Leased
    <3>2. st[e].active_lease_id \in DOMAIN fl \ DueLeases(dl, t)
      BY <3>1, <1>4 DEF LeasesExact, UnderLease
    <3>. QED BY <3>1, <3>2, <1>1, <1>2, <1>6, SMT DEF LeasesExact, UnderLease
  <2>. QED BY <2>1, <2>2 DEF LeasesExact
<1>9. DelayedExact(st2, de)
  BY <1>1, <1>3 DEF DelayedExact, Leased
<1>10. Housed(st2, de, X)
  <2>1. \A e \in X : Homeless(st2, de, e)
    BY <1>1, <1>3 DEF Homeless, Leased, LeasesExact, DelayedExact
  <2>2. \A e \in DOMAIN st2 \ X : Leased(st2, e) \/ st2[e].in_ready \/ InDelayed(st2, de, e)
    BY <1>1 DEF Housed, Leased, InDelayed
  <2>. QED BY <2>1, <2>2 DEF Housed
<1>11. \A e \in X : ~st[e].in_ready
  BY <1>3 DEF LeasesExact
<1>. QED BY <1>7, <1>8, <1>9, <1>10, <1>11 DEF st2, fl2

\* expire_leases keeps the invariant.
LEMMA ExpireInv ==
    ASSUME NEW s, NEW n \in Nat, NEW t \in Nat, QueueInv(s, n, {}), NEW r \in Expiries(s, t)
    PROVE  QueueInv(r, n, {})
<1>. DEFINE X == TimedOut(s.states, s.inFlight, s.leaseDeadlines, t)
<1>0. /\ QueueOK(s) /\ StatesOK(s.states) /\ FlightsOK(s.inFlight)
      /\ s.leaseDeadlines \in SUBSET (Nat \X LeaseIds)
      /\ s.delayed \in SUBSET (Nat \X Envelopes)
  BY DEF QueueInv, QueueOK
<1>1. PICK b \in HeapOrders(Expired(s, t), LeaseDeadline(s.states, s.inFlight)) :
        r = push_ready(PopExpired(s, t), b)
  BY DEF Expiries, expire_leases
<1>2. /\ ReadyExact(Released(s.states, X, t), s.ready)
      /\ LeasesExact(Released(s.states, X, t),
                     DropLeases(s.inFlight, DueLeases(s.leaseDeadlines, t)),
                     NotDue(s.leaseDeadlines, t))
      /\ DelayedExact(Released(s.states, X, t), s.delayed)
      /\ Housed(Released(s.states, X, t), s.delayed, X)
      /\ \A e \in X : ~s.states[e].in_ready
  BY <1>0, PopExpiredParts DEF QueueInv
<1>3. Expired(s, t) = X
  BY <1>2 DEF Expired
<1>4. X \in SUBSET Envelopes
  BY <1>0 DEF TimedOut, StatesOK
<1>5. /\ b \in Seq(Envelopes)
      /\ Range(b) = X
      /\ \A i, j \in DOMAIN b : b[i] = b[j] => i = j
  BY <1>1, <1>3, <1>4, HeapOrdersList, SMT
<1>6. PICK p : p = PopExpired(s, t)
  OBVIOUS
<1>7. /\ DOMAIN p = DOMAIN s
      /\ p.states = Released(s.states, X, t)
      /\ p.ready = s.ready
      /\ p.inFlight = DropLeases(s.inFlight, DueLeases(s.leaseDeadlines, t))
      /\ p.leaseDeadlines = NotDue(s.leaseDeadlines, t)
      /\ p.delayed = s.delayed
      /\ p.readyEvent = s.readyEvent
      /\ p.waiters = s.waiters
  BY <1>0, <1>6 DEF PopExpired, QueueOK
<1>8. QueueOK(p)
  <2>1. StatesOK(p.states)
    BY <1>0, <1>7, ReleasedFields, SMT
  <2>2. FlightsOK(p.inFlight)
    BY <1>0, <1>7, DropLeasesType
  <2>3. p.leaseDeadlines \subseteq Nat \X LeaseIds
    BY <1>0, <1>7 DEF NotDue
  <2>. QED BY <1>0, <1>7, <2>1, <2>2, <2>3 DEF QueueOK
<1>9. DOMAIN p.inFlight \subseteq 1..(n - 1)
  BY <1>0, <1>7, DropLeasesType DEF QueueInv
<1>10. QueueInv(p, n, Range(b))
  BY <1>2, <1>5, <1>7, <1>8, <1>9 DEF QueueInv
<1>. QED BY <1>1, <1>5, <1>6, <1>10, PushReadyInv

----------------------------------------------------------------------------
(* promote_delayed *)

\* Draining the due entries of _delayed leaves exactly their envelopes homeless.
LEMMA PopDelayedParts ==
    ASSUME NEW st, StatesOK(st), NEW t \in Nat, NEW de \in SUBSET (Nat \X Envelopes),
           DelayedExact(st, de), Housed(st, de, {})
    PROVE  /\ DelayedExact(st, NotDue(de, t))
           /\ Housed(st, NotDue(de, t), Promoted(st, de, t))
<1>1. DelayedExact(st, NotDue(de, t))
  BY DEF DelayedExact, NotDue
<1>2. ASSUME NEW e \in Promoted(st, de, t) PROVE Homeless(st, NotDue(de, t), e)
  <2>1. e \in DOMAIN st /\ ~Leased(st, e) /\ ~st[e].in_ready /\ st[e].available_at_ms <= t
    BY DEF Promoted
  <2>2. ASSUME NEW d \in NotDue(de, t), d[2] = e PROVE FALSE
    <3>1. d \in de /\ d[1] > t /\ d[1] \in Nat
      BY DEF NotDue
    <3>2. st[e].available_at_ms = d[1]
      BY <3>1, <2>2 DEF DelayedExact
    <3>. QED BY <2>1, <3>1, <3>2, SMT
  <2>. QED BY <2>1, <2>2 DEF Homeless
<1>3. ASSUME NEW e \in DOMAIN st \ Promoted(st, de, t)
      PROVE  Leased(st, e) \/ st[e].in_ready \/ InDelayed(st, NotDue(de, t), e)
  <2>. DEFINE d == <<st[e].available_at_ms, e>>
  <2>1. st[e].available_at_ms \in Nat
    BY DEF StatesOK, EnvelopeState
  <2>2. CASE InDelayed(st, de, e) /\ ~Leased(st, e) /\ ~st[e].in_ready
    <3>1. ~(st[e].available_at_ms <= t) /\ d \in de
      BY <2>2 DEF Promoted, InDelayed
    <3>. QED BY <3>1, <2>1, SMT DEF InDelayed, NotDue
  <2>. QED BY <2>2 DEF Housed
<1>. QED BY <1>1, <1>2, <1>3 DEF Housed

\* promote_delayed keeps the invariant.
LEMMA PromoteInv ==
    ASSUME NEW s, NEW n \in Nat, NEW t \in Nat, QueueInv(s, n, {}), NEW r \in Promotions(s, t)
    PROVE  QueueInv(r, n, {})
<1>. DEFINE P == Promoted(s.states, s.delayed, t)
<1>0. /\ QueueOK(s) /\ StatesOK(s.states)
      /\ s.delayed \in SUBSET (Nat \X Envelopes)
  BY DEF QueueInv, QueueOK
<1>1. PICK b \in HeapOrders(P, AvailableAt(s.states)) :
        r = push_ready([s EXCEPT !.delayed = NotDue(s.delayed, t)], b)
  BY DEF Promotions, promote_delayed
<1>2. P \in SUBSET Envelopes
  BY <1>0 DEF Promoted, StatesOK
<1>3. /\ b \in Seq(Envelopes)
      /\ Range(b) = P
      /\ \A i, j \in DOMAIN b : b[i] = b[j] => i = j
  BY <1>1, <1>2, HeapOrdersList
<1>4. /\ DelayedExact(s.states, NotDue(s.delayed, t))
      /\ Housed(s.states, NotDue(s.delayed, t), P)
  BY <1>0, PopDelayedParts DEF QueueInv
<1>5. PICK p : p = [s EXCEPT !.delayed = NotDue(s.delayed, t)]
  OBVIOUS
<1>6. /\ DOMAIN p = DOMAIN s
      /\ p.states = s.states
      /\ p.ready = s.ready
      /\ p.inFlight = s.inFlight
      /\ p.leaseDeadlines = s.leaseDeadlines
      /\ p.delayed = NotDue(s.delayed, t)
      /\ p.readyEvent = s.readyEvent
      /\ p.waiters = s.waiters
  BY <1>0, <1>5 DEF QueueOK
<1>7. p.delayed \subseteq Nat \X Envelopes
  BY <1>0, <1>6 DEF NotDue
<1>8. QueueOK(p)
  BY <1>0, <1>6, <1>7 DEF QueueOK
<1>9. QueueInv(p, n, Range(b))
  BY <1>3, <1>4, <1>6, <1>8 DEF QueueInv
<1>. QED BY <1>1, <1>3, <1>5, <1>9, PushReadyInv

\* The common prefix of the operations keeps the invariant.
LEMMA RefreshInv ==
    ASSUME NEW s, NEW n \in Nat, NEW t \in Nat, QueueInv(s, n, {}), NEW r \in Refreshed(s, t)
    PROVE  QueueInv(r, n, {})
<1>1. PICK s1 \in Expiries(s, t) : r \in Promotions(s1, t)
  BY DEF Refreshed
<1>2. QueueInv(s1, n, {})
  BY ExpireInv
<1>. QED BY <1>1, <1>2, PromoteInv

----------------------------------------------------------------------------
(* push_delayed *)

LEMMA PushDelayedParts ==
    ASSUME NEW st, StatesOK(st), NEW E, NEW de, DelayedExact(st, de), Housed(st, de, E)
    PROVE  /\ HeapEntries(st, E) \subseteq Nat \X Envelopes
           /\ DelayedExact(st, de \cup HeapEntries(st, E))
           /\ Housed(st, de \cup HeapEntries(st, E), {})
<1>1. \A e \in E : e \in DOMAIN st /\ ~Leased(st, e) /\ ~st[e].in_ready
  BY DEF Housed, Homeless
<1>2. HeapEntries(st, E) = {<<st[e].available_at_ms, e>> : e \in E}
  BY <1>1 DEF HeapEntries
<1>3. \A e \in DOMAIN st : st[e].available_at_ms \in Nat /\ e \in Envelopes
  BY DEF StatesOK, EnvelopeState
<1>4. HeapEntries(st, E) \subseteq Nat \X Envelopes
  BY <1>1, <1>2, <1>3, SMT
<1>5. DelayedExact(st, de \cup HeapEntries(st, E))
  BY <1>1, <1>2, SMT DEF DelayedExact
<1>6. Housed(st, de \cup HeapEntries(st, E), {})
  BY <1>2 DEF Housed, InDelayed
<1>. QED BY <1>4, <1>5, <1>6

\* push_delayed houses the homeless envelopes it is given.
LEMMA PushDelayedInv ==
    ASSUME NEW s, NEW n \in Nat, NEW E, QueueInv(s, n, E)
    PROVE  QueueInv(push_delayed(s, E), n, {})
<1>0. QueueOK(s) /\ StatesOK(s.states)
  BY DEF QueueInv, QueueOK
<1>1. PICK r : r = push_delayed(s, E)
  OBVIOUS
<1>2. /\ DOMAIN r = DOMAIN s
      /\ r.states = s.states
      /\ r.ready = s.ready
      /\ r.inFlight = s.inFlight
      /\ r.leaseDeadlines = s.leaseDeadlines
      /\ r.delayed = s.delayed \cup HeapEntries(s.states, E)
      /\ r.readyEvent = s.readyEvent
      /\ r.waiters = s.waiters
  BY <1>0, <1>1 DEF push_delayed, QueueOK
<1>3. /\ HeapEntries(s.states, E) \subseteq Nat \X Envelopes
      /\ DelayedExact(s.states, s.delayed \cup HeapEntries(s.states, E))
      /\ Housed(s.states, s.delayed \cup HeapEntries(s.states, E), {})
  <2>1. DelayedExact(s.states, s.delayed) /\ Housed(s.states, s.delayed, E)
    BY DEF QueueInv
  <2>. QED BY <1>0, <2>1, PushDelayedParts
<1>4. QueueOK(r)
  BY <1>0, <1>2, <1>3 DEF QueueOK
<1>. QED BY <1>1, <1>2, <1>3, <1>4 DEF QueueInv

----------------------------------------------------------------------------
(* Changes to states alone, between two pushes *)

\* A record that differs from s in the field states only.
LEMMA SetStates ==
    ASSUME NEW s, QueueOK(s), NEW st
    PROVE  LET r == [s EXCEPT !.states = st] IN
           /\ DOMAIN r = DOMAIN s
           /\ r.states = st
           /\ r.ready = s.ready
           /\ r.inFlight = s.inFlight
           /\ r.leaseDeadlines = s.leaseDeadlines
           /\ r.delayed = s.delayed
           /\ r.readyEvent = s.readyEvent
           /\ r.waiters = s.waiters
BY DEF QueueOK

LEMMA AvailableAtParts ==
    ASSUME NEW st, StatesOK(st), NEW fl, NEW dl, NEW rd, NEW de,
           NEW e \in Envelopes, NEW at \in Nat,
           ReadyExact(st, rd), LeasesExact(st, fl, dl), DelayedExact(st, de), Housed(st, de, {e})
    PROVE  LET st2 == WithAvailableAt(st, e, at) IN
           /\ StatesOK(st2)
           /\ ReadyExact(st2, rd)
           /\ LeasesExact(st2, fl, dl)
           /\ DelayedExact(st2, de)
           /\ Housed(st2, de, {e})
<1>. DEFINE st2 == WithAvailableAt(st, e, at)
<1>1. /\ StatesOK(st2)
      /\ DOMAIN st2 = DOMAIN st
      /\ \A f \in DOMAIN st :
           /\ st2[f].in_ready = st[f].in_ready
           /\ st2[f].active_lease_id = st[f].active_lease_id
           /\ f # e => st2[f].available_at_ms = st[f].available_at_ms
  BY DEF WithAvailableAt, StatesOK, EnvelopeState
<1>. HIDE DEF st2
<1>2. ReadyExact(st2, rd)
  BY <1>1 DEF ReadyExact
<1>3. LeasesExact(st2, fl, dl)
  BY <1>1 DEF LeasesExact, LeasesCurrent, Leased, UnderLease
<1>4. DelayedExact(st2, de)
  BY <1>1 DEF DelayedExact, Leased, Housed, Homeless
<1>5. Housed(st2, de, {e})
  BY <1>1 DEF Housed, Homeless, Leased, InDelayed
<1>. QED BY <1>1, <1>2, <1>3, <1>4, <1>5 DEF st2

\* The one homeless envelope finds a home, whichever branch is taken.
LEMMA MakeAvailableInv ==
    ASSUME NEW s, NEW n \in Nat, NEW e \in Envelopes, NEW at \in Nat, NEW t \in Nat,
           QueueInv(s, n, {e})
    PROVE  QueueInv(MakeAvailable(s, e, at, t), n, {})
<1>. DEFINE st2 == WithAvailableAt(s.states, e, at)
<1>0. QueueOK(s) /\ StatesOK(s.states)
  BY DEF QueueInv, QueueOK
<1>1. PICK r : r = [s EXCEPT !.states = st2]
  OBVIOUS
<1>2. /\ DOMAIN r = DOMAIN s
      /\ r.states = st2
      /\ r.ready = s.ready
      /\ r.inFlight = s.inFlight
      /\ r.leaseDeadlines = s.leaseDeadlines
      /\ r.delayed = s.delayed
      /\ r.readyEvent = s.readyEvent
      /\ r.waiters = s.waiters
  BY <1>0, <1>1, SetStates, SMT
<1>3. /\ StatesOK(st2)
      /\ ReadyExact(st2, s.ready)
      /\ LeasesExact(st2, s.inFlight, s.leaseDeadlines)
      /\ DelayedExact(st2, s.delayed)
      /\ Housed(st2, s.delayed, {e})
  BY <1>0, AvailableAtParts DEF QueueInv
<1>. HIDE DEF st2
<1>4. QueueOK(r)
  BY <1>0, <1>2, <1>3 DEF QueueOK
<1>5. QueueInv(r, n, {e})
  BY <1>2, <1>3, <1>4 DEF QueueInv
<1>6. /\ <<e>> \in Seq(Envelopes)
      /\ \A i, j \in DOMAIN <<e>> : <<e>>[i] = <<e>>[j] => i = j
  BY SMT
<1>7. Range(<<e>>) = {e}
  BY SMT DEF Range
<1>8. QueueInv(push_ready(r, <<e>>), n, {})
  BY <1>5, <1>6, <1>7, PushReadyInv
<1>9. QueueInv(push_delayed(r, {e}), n, {})
  BY <1>5, PushDelayedInv
<1>. QED BY <1>1, <1>8, <1>9 DEF MakeAvailable, st2

LEMMA WithNewParts ==
    ASSUME NEW st, StatesOK(st), NEW fl, NEW dl, NEW rd,
           NEW de \in SUBSET (Nat \X Envelopes), NEW e \in Envelopes \ DOMAIN st,
           ReadyExact(st, rd), LeasesExact(st, fl, dl), DelayedExact(st, de), Housed(st, de, {})
    PROVE  LET st2 == WithNew(st, e) IN
           /\ StatesOK(st2)
           /\ ReadyExact(st2, rd)
           /\ LeasesExact(st2, fl, dl)
           /\ DelayedExact(st2, de)
           /\ Housed(st2, de, {e})
<1>. DEFINE st2 == WithNew(st, e)
<1>1. /\ StatesOK(st2)
      /\ DOMAIN st2 = DOMAIN st \cup {e}
      /\ \A f \in DOMAIN st : st2[f] = st[f]
      /\ st2[e] = NewState
  BY DEF WithNew, NewState, StatesOK, EnvelopeState
<1>2. st2[e].in_ready = FALSE /\ st2[e].active_lease_id = NoLease
  BY <1>1, SMT DEF NewState
<1>. HIDE DEF st2
<1>3. ReadyExact(st2, rd)
  BY <1>1, <1>2 DEF ReadyExact
<1>4. LeasesExact(st2, fl, dl)
  BY <1>1, <1>2 DEF LeasesExact, LeasesCurrent, Leased, UnderLease
<1>5. DelayedExact(st2, de)
  BY <1>1 DEF DelayedExact, Leased
<1>6. Housed(st2, de, {e})
  BY <1>1, <1>2 DEF Housed, Homeless, Leased, InDelayed, DelayedExact
<1>. QED BY <1>1, <1>3, <1>4, <1>5, <1>6 DEF st2

\* enqueue() of a new envelope.
LEMMA InsertInv ==
    ASSUME NEW s, NEW n \in Nat, NEW e \in Envelopes, e \notin DOMAIN s.states,
           NEW at \in Nat, NEW t \in Nat, QueueInv(s, n, {})
    PROVE  QueueInv(Insert(s, e, at, t), n, {})
<1>. DEFINE st2 == WithNew(s.states, e)
<1>0. QueueOK(s) /\ StatesOK(s.states) /\ s.delayed \in SUBSET (Nat \X Envelopes)
  BY DEF QueueInv, QueueOK
<1>1. PICK r : r = [s EXCEPT !.states = st2]
  OBVIOUS
<1>2. /\ DOMAIN r = DOMAIN s
      /\ r.states = st2
      /\ r.ready = s.ready
      /\ r.inFlight = s.inFlight
      /\ r.leaseDeadlines = s.leaseDeadlines
      /\ r.delayed = s.delayed
      /\ r.readyEvent = s.readyEvent
      /\ r.waiters = s.waiters
  BY <1>0, <1>1, SetStates, SMT
<1>3. /\ StatesOK(st2)
      /\ ReadyExact(st2, s.ready)
      /\ LeasesExact(st2, s.inFlight, s.leaseDeadlines)
      /\ DelayedExact(st2, s.delayed)
      /\ Housed(st2, s.delayed, {e})
  BY <1>0, WithNewParts DEF QueueInv
<1>. HIDE DEF st2
<1>4. QueueOK(r)
  BY <1>0, <1>2, <1>3 DEF QueueOK
<1>5. QueueInv(r, n, {e})
  BY <1>2, <1>3, <1>4 DEF QueueInv
<1>6. QueueInv(MakeAvailable(r, e, at, t), n, {})
  BY <1>5, MakeAvailableInv
<1>. QED BY <1>1, <1>6 DEF Insert, st2

----------------------------------------------------------------------------
(* ack() and nack() *)

LEMMA ActiveIsLeased ==
    ASSUME NEW st, StatesOK(st), NEW fl, FlightsOK(fl), NEW l
    PROVE  \A e \in ActiveEnvelopes(st, fl, l) :
               e \in DOMAIN st /\ Leased(st, e) /\ st[e].active_lease_id = l
BY LeaseIdsNotNone DEF ActiveEnvelopes, Leased, FlightsOK

\* Without the lease l, and with the envelopes it was active for forgotten.
LEMMA SettleParts ==
    ASSUME NEW st, StatesOK(st), NEW fl, FlightsOK(fl), NEW rd, NEW dl, NEW l,
           NEW de \in SUBSET (Nat \X Envelopes),
           ReadyExact(st, rd), LeasesExact(st, fl, dl), DelayedExact(st, de), Housed(st, de, {})
    PROVE  LET st2 == Without(st, ActiveEnvelopes(st, fl, l))
               fl2 == DropLeases(fl, {l})
           IN  /\ StatesOK(st2)
               /\ ReadyExact(st2, rd)
               /\ LeasesExact(st2, fl2, dl)
               /\ DelayedExact(st2, de)
               /\ Housed(st2, de, {})
<1>. DEFINE A == ActiveEnvelopes(st, fl, l)
            st2 == Without(st, A)
            fl2 == DropLeases(fl, {l})
<1>1. /\ StatesOK(st2)
      /\ DOMAIN st2 = DOMAIN st \ A
      /\ \A e \in DOMAIN st \ A : st2[e] = st[e]
  BY DEF Without, StatesOK
<1>2. /\ DOMAIN fl2 = DOMAIN fl \ {l}
      /\ \A k \in DOMAIN fl \ {l} : fl2[k] = fl[k]
  BY DropLeasesFields
<1>3. \A e \in A : e \in DOMAIN st /\ Leased(st, e) /\ st[e].active_lease_id = l
  BY ActiveIsLeased
<1>4. \A e \in DOMAIN st \ A : Leased(st, e) => st[e].active_lease_id # l
  BY DEF ActiveEnvelopes, LeasesExact, UnderLease
<1>. HIDE DEF st2, fl2, A
<1>5. ReadyExact(st2, rd)
  BY <1>1, <1>3 DEF ReadyExact, LeasesExact
<1>6. LeasesExact(st2, fl2, dl)
  <2>1. LeasesCurrent(st2, fl2)
    BY <1>1, <1>2, <1>3, SMT DEF LeasesExact, LeasesCurrent
  <2>2. ASSUME NEW e \in DOMAIN st2, Leased(st2, e)
        PROVE  ~st2[e].in_ready /\ UnderLease(st2, fl2, dl, e)
    <3>1. /\ e \in DOMAIN st \ A /\ Leased(st, e)
          /\ st2[e].active_lease_id = st[e].active_lease_id
          /\ st2[e].in_ready = st[e].in_ready
      BY <2>2, <1>1 DEF Leased
    <3>2. st[e].active_lease_id \in DOMAIN fl \ {l}
      BY <3>1, <1>4 DEF LeasesExact, UnderLease
    <3>. QED BY <3>1, <3>2, <1>2 DEF LeasesExact, UnderLease
  <2>. QED BY <2>1, <2>2 DEF LeasesExact
<1>7. DelayedExact(st2, de)
  BY <1>1, <1>3 DEF DelayedExact, Leased
<1>8. Housed(st2, de, {})
  BY <1>1 DEF Housed, Leased, InDelayed
<1>. QED BY <1>1, <1>5, <1>6, <1>7, <1>8 DEF st2, fl2, A

LEMMA SettleInv ==
    ASSUME NEW s, NEW n \in Nat, NEW l, QueueInv(s, n, {})
    PROVE  QueueInv(Settle(s, l), n, {})
<1>. DEFINE st2 == Without(s.states, ActiveEnvelopes(s.states, s.inFlight, l))
            fl2 == DropLeases(s.inFlight, {l})
<1>0. /\ QueueOK(s) /\ StatesOK(s.states) /\ FlightsOK(s.inFlight)
      /\ s.delayed \in SUBSET (Nat \X Envelopes)
  BY DEF QueueInv, QueueOK
<1>1. /\ StatesOK(st2)
      /\ ReadyExact(st2, s.ready)
      /\ LeasesExact(st2, fl2, s.leaseDeadlines)
      /\ DelayedExact(st2, s.delayed)
      /\ Housed(st2, s.delayed, {})
  <2>1. /\ ReadyExact(s.states, s.ready)
        /\ LeasesExact(s.states, s.inFlight, s.leaseDeadlines)
        /\ DelayedExact(s.states, s.delayed) /\ Housed(s.states, s.delayed, {})
    BY DEF QueueInv
  <2>. QED BY <1>0, <2>1, SettleParts
<1>2. FlightsOK(fl2) /\ DOMAIN fl2 \subseteq DOMAIN s.inFlight
  BY <1>0, DropLeasesType
<1>3. PICK r : r = Settle(s, l)
  OBVIOUS
<1>4. /\ DOMAIN r = DOMAIN s
      /\ r.states = st2
      /\ r.ready = s.ready
      /\ r.inFlight = fl2
      /\ r.leaseDeadlines = s.leaseDeadlines
      /\ r.delayed = s.delayed
      /\ r.readyEvent = s.readyEvent
      /\ r.waiters = s.waiters
  BY <1>0, <1>3 DEF Settle, QueueOK
<1>. HIDE DEF st2, fl2
<1>5. QueueOK(r)
  BY <1>0, <1>1, <1>2, <1>4 DEF QueueOK
<1>6. DOMAIN r.inFlight \subseteq 1..(n - 1)
  BY <1>2, <1>4 DEF QueueInv
<1>. QED BY <1>1, <1>3, <1>4, <1>5, <1>6 DEF QueueInv

\* Without the lease l, the envelopes it was active for are homeless.
LEMMA UnleaseParts ==
    ASSUME NEW st, StatesOK(st), NEW fl, FlightsOK(fl), NEW rd, NEW dl, NEW l, NEW t \in Nat,
           NEW de \in SUBSET (Nat \X Envelopes),
           ReadyExact(st, rd), LeasesExact(st, fl, dl), DelayedExact(st, de), Housed(st, de, {})
    PROVE  LET A == ActiveEnvelopes(st, fl, l)
               st2 == Released(st, A, t)
               fl2 == DropLeases(fl, {l})
           IN  /\ StatesOK(st2)
               /\ ReadyExact(st2, rd)
               /\ LeasesExact(st2, fl2, dl)
               /\ DelayedExact(st2, de)
               /\ Housed(st2, de, A)
<1>. DEFINE A == ActiveEnvelopes(st, fl, l)
            st2 == Released(st, A, t)
            fl2 == DropLeases(fl, {l})
<1>1. /\ StatesOK(st2)
      /\ DOMAIN st2 = DOMAIN st
      /\ \A e \in DOMAIN st :
           /\ st2[e].in_ready = st[e].in_ready
           /\ st2[e].active_lease_id = IF e \in A THEN NoLease ELSE st[e].active_lease_id
           /\ st2[e].available_at_ms = IF e \in A THEN t ELSE st[e].available_at_ms
  BY ReleasedFields, SMT
<1>2. /\ DOMAIN fl2 = DOMAIN fl \ {l}
      /\ \A k \in DOMAIN fl \ {l} : fl2[k] = fl[k]
  BY DropLeasesFields
<1>3. \A e \in A : e \in DOMAIN st /\ Leased(st, e) /\ st[e].active_lease_id = l
  BY ActiveIsLeased
<1>4. \A e \in DOMAIN st \ A : Leased(st, e) => st[e].active_lease_id # l
  BY DEF ActiveEnvelopes, LeasesExact, UnderLease
<1>. HIDE DEF st2, fl2, A
<1>5. ReadyExact(st2, rd)
  BY <1>1 DEF ReadyExact
<1>6. LeasesExact(st2, fl2, dl)
  <2>1. LeasesCurrent(st2, fl2)
    BY <1>1, <1>2, <1>3, SMT DEF LeasesExact, LeasesCurrent
  <2>2. ASSUME NEW e \in DOMAIN st2, Leased(st2, e)
        PROVE  ~st2[e].in_ready /\ UnderLease(st2, fl2, dl, e)
    <3>1. /\ e \in DOMAIN st \ A /\ Leased(st, e)
          /\ st2[e].active_lease_id = st[e].active_lease_id
          /\ st2[e].in_ready = st[e].in_ready
      BY <2>2, <1>1 DEF Leased
    <3>2. st[e].active_lease_id \in DOMAIN fl \ {l}
      BY <3>1, <1>4 DEF LeasesExact, UnderLease
    <3>. QED BY <3>1, <3>2, <1>2 DEF LeasesExact, UnderLease
  <2>. QED BY <2>1, <2>2 DEF LeasesExact
<1>7. DelayedExact(st2, de)
  BY <1>1, <1>3 DEF DelayedExact, Leased
<1>8. Housed(st2, de, A)
  <2>1. \A e \in A : Homeless(st2, de, e)
    BY <1>1, <1>3 DEF Homeless, Leased, LeasesExact, DelayedExact
  <2>2. \A e \in DOMAIN st2 \ A : Leased(st2, e) \/ st2[e].in_ready \/ InDelayed(st2, de, e)
    BY <1>1 DEF Housed, Leased, InDelayed
  <2>. QED BY <2>1, <2>2 DEF Housed
<1>. QED BY <1>1, <1>5, <1>6, <1>7, <1>8 DEF st2, fl2, A

LEMMA UnleaseInv ==
    ASSUME NEW s, NEW n \in Nat, NEW l, NEW t \in Nat, QueueInv(s, n, {})
    PROVE  QueueInv(Unlease(s, l, t), n, ActiveEnvelopes(s.states, s.inFlight, l))
<1>. DEFINE A == ActiveEnvelopes(s.states, s.inFlight, l)
            st2 == Released(s.states, A, t)
            fl2 == DropLeases(s.inFlight, {l})
<1>0. /\ QueueOK(s) /\ StatesOK(s.states) /\ FlightsOK(s.inFlight)
      /\ s.delayed \in SUBSET (Nat \X Envelopes)
  BY DEF QueueInv, QueueOK
<1>1. /\ StatesOK(st2)
      /\ ReadyExact(st2, s.ready)
      /\ LeasesExact(st2, fl2, s.leaseDeadlines)
      /\ DelayedExact(st2, s.delayed)
      /\ Housed(st2, s.delayed, A)
  <2>1. /\ ReadyExact(s.states, s.ready)
        /\ LeasesExact(s.states, s.inFlight, s.leaseDeadlines)
        /\ DelayedExact(s.states, s.delayed) /\ Housed(s.states, s.delayed, {})
    BY DEF QueueInv
  <2>. QED BY <1>0, <2>1, UnleaseParts
<1>2. FlightsOK(fl2) /\ DOMAIN fl2 \subseteq DOMAIN s.inFlight
  BY <1>0, DropLeasesType
<1>3. PICK r : r = Unlease(s, l, t)
  OBVIOUS
<1>4. /\ DOMAIN r = DOMAIN s
      /\ r.states = st2
      /\ r.ready = s.ready
      /\ r.inFlight = fl2
      /\ r.leaseDeadlines = s.leaseDeadlines
      /\ r.delayed = s.delayed
      /\ r.readyEvent = s.readyEvent
      /\ r.waiters = s.waiters
  BY <1>0, <1>3 DEF Unlease, QueueOK
<1>. HIDE DEF st2, fl2, A
<1>5. QueueOK(r)
  BY <1>0, <1>1, <1>2, <1>4 DEF QueueOK
<1>6. DOMAIN r.inFlight \subseteq 1..(n - 1)
  BY <1>2, <1>4 DEF QueueInv
<1>7. QueueInv(r, n, A)
  BY <1>1, <1>4, <1>5, <1>6 DEF QueueInv
<1>. QED BY <1>3, <1>7 DEF A

----------------------------------------------------------------------------
(* try_dequeue *)

LEMMA DropFirst ==
    ASSUME NEW rd \in Seq(Envelopes), NEW k \in 0..Len(rd)
    PROVE  LET rd2 == SubSeq(rd, k + 1, Len(rd)) IN
           /\ rd2 \in Seq(Envelopes)
           /\ DOMAIN rd2 = 1..(Len(rd) - k)
           /\ Len(rd2) = Len(rd) - k
           /\ \A i \in 1..(Len(rd) - k) : rd2[i] = rd[k + i]
<1>. DEFINE rd2 == SubSeq(rd, k + 1, Len(rd))
<1>1. Len(rd) \in Nat /\ k \in Nat /\ k <= Len(rd)
  BY LenProperties, SMT
<1>2. \A i \in (k + 1)..Len(rd) : rd[i] \in Envelopes
  BY <1>1, LenProperties, SMT
<1>3. /\ rd2 \in Seq(Envelopes)
      /\ Len(rd2) = IF k + 1 <= Len(rd) THEN Len(rd) - (k + 1) + 1 ELSE 0
      /\ \A i \in 1..(Len(rd) - (k + 1) + 1) : rd2[i] = rd[(k + 1) + i - 1]
  BY <1>1, <1>2, SubSeqProperties, SMT
<1>. HIDE DEF rd2
<1>4. Len(rd2) = Len(rd) - k
  BY <1>1, <1>3, SMT
<1>5. DOMAIN rd2 = 1..(Len(rd) - k)
  BY <1>3, <1>4, LenProperties
<1>6. \A i \in 1..(Len(rd) - k) : rd2[i] = rd[k + i]
  BY <1>1, <1>3, SMT
<1>. QED BY <1>3, <1>4, <1>5, <1>6 DEF rd2

\* The first k ids of _ready are popped: their envelopes are homeless.
LEMMA SkipParts ==
    ASSUME NEW st, StatesOK(st), NEW rd \in Seq(Envelopes), NEW fl, NEW dl, NEW de,
           NEW k \in 0..Len(rd),
           ReadyExact(st, rd), LeasesExact(st, fl, dl), DelayedExact(st, de), Housed(st, de, {}),
           de \subseteq Nat \X Envelopes
    PROVE  LET B == {rd[i] : i \in 1..k} \cap DOMAIN st
               st2 == UnmarkReady(st, B)
           IN  /\ StatesOK(st2)
               /\ ReadyExact(st2, SubSeq(rd, k + 1, Len(rd)))
               /\ LeasesExact(st2, fl, dl)
               /\ DelayedExact(st2, de)
               /\ Housed(st2, de, B)
<1>. DEFINE B == {rd[i] : i \in 1..k} \cap DOMAIN st
            st2 == UnmarkReady(st, B)
            rd2 == SubSeq(rd, k + 1, Len(rd))
<1>1. /\ StatesOK(st2)
      /\ DOMAIN st2 = DOMAIN st
      /\ \A e \in DOMAIN st :
           /\ st2[e].active_lease_id = st[e].active_lease_id
           /\ st2[e].available_at_ms = st[e].available_at_ms
           /\ st2[e].in_ready <=> (st[e].in_ready /\ e \notin B)
  BY DEF UnmarkReady, StatesOK, EnvelopeState
<1>2. /\ DOMAIN rd2 = 1..(Len(rd) - k)
      /\ \A i \in 1..(Len(rd) - k) : rd2[i] = rd[k + i]
  BY DropFirst
<1>3. DOMAIN rd = 1..Len(rd) /\ Len(rd) \in Nat /\ k \in Nat /\ k <= Len(rd)
  BY LenProperties, SMT
<1>4. \A i \in 1..k : i \in DOMAIN rd /\ rd[i] \in B
  BY <1>3, SMT DEF ReadyExact
<1>5. \A e \in B : e \in DOMAIN st /\ st[e].in_ready /\ \E i \in 1..k : rd[i] = e
  BY <1>3, SMT DEF ReadyExact
<1>. HIDE DEF st2, B, rd2
<1>6. ReadyExact(st2, rd2)
  <2>1. ASSUME NEW i \in DOMAIN rd2 PROVE rd2[i] \in DOMAIN st2 /\ st2[rd2[i]].in_ready
    <3>1. k + i \in DOMAIN rd /\ rd2[i] = rd[k + i] /\ \A j \in 1..k : j # k + i
      BY <1>2, <1>3, SMT
    <3>2. rd[k + i] \in DOMAIN st /\ st[rd[k + i]].in_ready
      BY <3>1 DEF ReadyExact
    <3>3. rd[k + i] \notin B
      BY <3>1, <1>3, <1>4, <1>5, SMT DEF ReadyExact
    <3>. QED BY <3>1, <3>2, <3>3, <1>1
  <2>2. ASSUME NEW e \in DOMAIN st2, st2[e].in_ready PROVE InReady(rd2, e)
    <3>1. e \in DOMAIN st /\ st[e].in_ready /\ e \notin B
      BY <2>2, <1>1
    <3>2. PICK i \in DOMAIN rd : rd[i] = e
      BY <3>1 DEF ReadyExact, InReady
    <3>3. i \notin 1..k
      BY <3>1, <3>2, <1>4
    <3>4. i - k \in DOMAIN rd2 /\ rd2[i - k] = e
      BY <3>2, <3>3, <1>2, <1>3, SMT
    <3>. QED BY <3>4 DEF InReady
  <2>3. ASSUME NEW i \in DOMAIN rd2, NEW j \in DOMAIN rd2, rd2[i] = rd2[j] PROVE i = j
    <3>1. k + i \in DOMAIN rd /\ k + j \in DOMAIN rd /\ rd[k + i] = rd[k + j]
      BY <2>3, <1>2, <1>3, SMT
    <3>2. k + i = k + j
      BY <3>1 DEF ReadyExact
    <3>. QED BY <3>2, <1>2, <1>3, SMT
  <2>. QED BY <2>1, <2>2, <2>3 DEF ReadyExact
<1>7. LeasesExact(st2, fl, dl)
  BY <1>1 DEF LeasesExact, LeasesCurrent, Leased, UnderLease
<1>8. DelayedExact(st2, de)
  BY <1>1 DEF DelayedExact, Leased
<1>9. Housed(st2, de, B)
  <2>1. \A e \in B : Homeless(st2, de, e)
    BY <1>1, <1>5 DEF Homeless, Leased, LeasesExact, DelayedExact
  <2>2. \A e \in DOMAIN st2 \ B : Leased(st2, e) \/ st2[e].in_ready \/ InDelayed(st2, de, e)
    BY <1>1 DEF Housed, Leased, InDelayed
  <2>. QED BY <2>1, <2>2 DEF Housed
<1>. QED BY <1>1, <1>6, <1>7, <1>8, <1>9 DEF st2, B, rd2

LEMMA SkipReadyInv ==
    ASSUME NEW s, NEW n \in Nat, NEW k \in 0..Len(s.ready), QueueInv(s, n, {})
    PROVE  /\ QueueInv(SkipReady(s, k), n, {})
           /\ SkipReady(s, k).ready = SubSeq(s.ready, k + 1, Len(s.ready))
<1>. DEFINE B == {s.ready[i] : i \in 1..k} \cap DOMAIN s.states
            st2 == UnmarkReady(s.states, B)
            rd2 == SubSeq(s.ready, k + 1, Len(s.ready))
<1>0. /\ QueueOK(s) /\ StatesOK(s.states) /\ s.ready \in Seq(Envelopes)
      /\ s.delayed \subseteq Nat \X Envelopes
  BY DEF QueueInv, QueueOK
<1>1. /\ StatesOK(st2)
      /\ ReadyExact(st2, rd2)
      /\ LeasesExact(st2, s.inFlight, s.leaseDeadlines)
      /\ DelayedExact(st2, s.delayed)
      /\ Housed(st2, s.delayed, B)
  <2>1. /\ ReadyExact(s.states, s.ready)
        /\ LeasesExact(s.states, s.inFlight, s.leaseDeadlines)
        /\ DelayedExact(s.states, s.delayed) /\ Housed(s.states, s.delayed, {})
    BY DEF QueueInv
  <2>. QED BY <1>0, <2>1, SkipParts
<1>2. rd2 \in Seq(Envelopes)
  BY <1>0, DropFirst
<1>3. WakeupOK(rd2, s.waiters)
  <2>1. SUFFICES ASSUME s.waiters # {} PROVE rd2 = <<>>
    BY DEF WakeupOK
  <2>2. s.ready = <<>>
    BY <2>1 DEF QueueInv, WakeupOK
  <2>3. Len(s.ready) = 0 /\ k = 0
    BY <2>2, SMT
  <2>. QED BY <2>3, SubSeqEmpty, SMT
<1>4. PICK r : r = [s EXCEPT !.ready = rd2, !.states = st2]
  OBVIOUS
<1>5. /\ DOMAIN r = DOMAIN s
      /\ r.states = st2
      /\ r.ready = rd2
      /\ r.inFlight = s.inFlight
      /\ r.leaseDeadlines = s.leaseDeadlines
      /\ r.delayed = s.delayed
      /\ r.readyEvent = s.readyEvent
      /\ r.waiters = s.waiters
  BY <1>0, <1>4 DEF QueueOK
<1>6. SkipReady(s, k) = push_delayed(r, B)
  BY <1>4 DEF SkipReady
<1>. HIDE DEF st2, B, rd2
<1>7. QueueOK(r)
  BY <1>0, <1>1, <1>2, <1>5 DEF QueueOK
<1>8. QueueInv(r, n, B)
  BY <1>1, <1>3, <1>5, <1>7 DEF QueueInv
<1>9. QueueInv(push_delayed(r, B), n, {})
  BY <1>8, PushDelayedInv
<1>10. push_delayed(r, B).ready = r.ready
  BY <1>7 DEF push_delayed, QueueOK
<1>. QED BY <1>5, <1>6, <1>9, <1>10 DEF rd2

\* Delivering the head of _ready under a lease id that was never used.
LEMMA GrantParts ==
    ASSUME NEW st, StatesOK(st), NEW rd \in Seq(Envelopes), rd # <<>>, NEW fl, FlightsOK(fl),
           NEW dl \in SUBSET (Nat \X LeaseIds), NEW de \in SUBSET (Nat \X Envelopes),
           NEW until \in Nat, NEW l \in LeaseIds, l \notin DOMAIN fl,
           ReadyExact(st, rd), LeasesExact(st, fl, dl), DelayedExact(st, de), Housed(st, de, {})
    PROVE  LET e == Head(rd)
               st2 == GrantedState(st, e, l)
               fl2 == GrantedLease(st, fl, e, until, l)
           IN  /\ StatesOK(st2)
               /\ FlightsOK(fl2)
               /\ DOMAIN fl2 = DOMAIN fl \cup {l}
               /\ ReadyExact(st2, Tail(rd))
               /\ LeasesExact(st2, fl2, dl \cup {<<until, l>>})
               /\ DelayedExact(st2, de)
               /\ Housed(st2, de, {})
<1>. DEFINE e == Head(rd)
            st2 == GrantedState(st, e, l)
            fl2 == GrantedLease(st, fl, e, until, l)
            rd2 == Tail(rd)
<1>1. /\ Len(rd) \in Nat \ {0} /\ DOMAIN rd = 1..Len(rd)
      /\ e = rd[1]
      /\ rd2 \in Seq(Envelopes)
      /\ Len(rd2) = Len(rd) - 1
      /\ \A i \in 1..Len(rd2) : rd2[i] = rd[i + 1]
  BY HeadTailProperties, LenProperties, EmptySeq, SMT
<1>2. DOMAIN rd2 = 1..(Len(rd) - 1)
  BY <1>1, LenProperties
<1>3. e \in DOMAIN st /\ st[e].in_ready /\ ~Leased(st, e)
  BY <1>1, SMT DEF ReadyExact, LeasesExact
<1>4. l # NoLease
  BY LeaseIdsNotNone
<1>. HIDE DEF e, rd2
<1>5. /\ StatesOK(st2)
      /\ DOMAIN st2 = DOMAIN st
      /\ \A f \in DOMAIN st : f # e => st2[f] = st[f]
      /\ st2[e].in_ready = FALSE
      /\ st2[e].active_lease_id = l
  BY <1>3, SMT DEF GrantedState, StatesOK, EnvelopeState
<1>6. /\ FlightsOK(fl2)
      /\ DOMAIN fl2 = DOMAIN fl \cup {l}
      /\ \A k \in DOMAIN fl : fl2[k] = fl[k]
      /\ fl2[l].envelope_id = e
      /\ fl2[l].deadline_ms = until
  BY <1>3 DEF GrantedLease, FlightsOK, InFlight, StatesOK, EnvelopeState
<1>. HIDE DEF st2, fl2
<1>7. ReadyExact(st2, rd2)
  <2>1. ASSUME NEW i \in DOMAIN rd2 PROVE rd2[i] \in DOMAIN st2 /\ st2[rd2[i]].in_ready
    <3>1. i + 1 \in DOMAIN rd /\ rd2[i] = rd[i + 1] /\ i + 1 # 1 /\ 1 \in DOMAIN rd
      BY <1>1, <1>2, SMT
    <3>2. rd[i + 1] # e
      BY <3>1, <1>1 DEF ReadyExact
    <3>. QED BY <3>1, <3>2, <1>5 DEF ReadyExact
  <2>2. ASSUME NEW f \in DOMAIN st2, st2[f].in_ready PROVE InReady(rd2, f)
    <3>1. f \in DOMAIN st /\ f # e /\ st[f].in_ready
      BY <2>2, <1>5
    <3>2. PICK i \in DOMAIN rd : rd[i] = f
      BY <3>1 DEF ReadyExact, InReady
    <3>3. i - 1 \in DOMAIN rd2 /\ rd2[i - 1] = f
      BY <3>1, <3>2, <1>1, <1>2, SMT
    <3>. QED BY <3>3 DEF InReady
  <2>3. ASSUME NEW i \in DOMAIN rd2, NEW j \in DOMAIN rd2, rd2[i] = rd2[j] PROVE i = j
    <3>1. i + 1 \in DOMAIN rd /\ j + 1 \in DOMAIN rd /\ rd[i + 1] = rd[j + 1]
      BY <2>3, <1>1, <1>2, SMT
    <3>2. i + 1 = j + 1
      BY <3>1 DEF ReadyExact
    <3>. QED BY <3>2, <1>1, <1>2, SMT
  <2>. QED BY <2>1, <2>2, <2>3 DEF ReadyExact
<1>8. LeasesExact(st2, fl2, dl \cup {<<until, l>>})
  <2>1. LeasesCurrent(st2, fl2)
    <3>1. \A k \in DOMAIN fl : fl[k].envelope_id # e
      BY <1>3, LeaseIdsNotNone DEF LeasesExact, LeasesCurrent, Leased, FlightsOK
    <3>. QED BY <3>1, <1>3, <1>5, <1>6, SMT DEF LeasesExact, LeasesCurrent
  <2>2. ASSUME NEW f \in DOMAIN st2, Leased(st2, f)
        PROVE  ~st2[f].in_ready /\ UnderLease(st2, fl2, dl \cup {<<until, l>>}, f)
    <3>1. CASE f = e
      BY <3>1, <1>5, <1>6 DEF UnderLease
    <3>2. CASE f # e
      <4>1. f \in DOMAIN st /\ st2[f] = st[f] /\ Leased(st, f)
        BY <3>2, <2>2, <1>5 DEF Leased
      <4>2. /\ ~st[f].in_ready
            /\ st[f].active_lease_id \in DOMAIN fl
            /\ fl[st[f].active_lease_id].envelope_id = f
            /\ <<fl[st[f].active_lease_id].deadline_ms, st[f].active_lease_id>> \in dl
        BY <4>1 DEF LeasesExact, UnderLease
      <4>3. fl2[st[f].active_lease_id] = fl[st[f].active_lease_id]
        BY <4>2, <1>6
      <4>. QED BY <4>1, <4>2, <4>3, <1>6 DEF UnderLease
    <3>. QED BY <3>1, <3>2
  <2>. QED BY <2>1, <2>2 DEF LeasesExact
<1>9. DelayedExact(st2, de)
  BY <1>3, <1>5 DEF DelayedExact, Leased
<1>10. Housed(st2, de, {})
  BY <1>4, <1>5 DEF Housed, Leased, InDelayed
<1>. QED BY <1>5, <1>6, <1>7, <1>8, <1>9, <1>10 DEF st2, fl2, e, rd2

LEMMA GrantInv ==
    ASSUME NEW s, NEW n \in LeaseIds, NEW until \in Nat, QueueInv(s, n, {}), s.ready # <<>>
    PROVE  QueueInv(Grant(s, until, n), n + 1, {})
<1>. DEFINE e == Head(s.ready)
            st2 == GrantedState(s.states, e, n)
            fl2 == GrantedLease(s.states, s.inFlight, e, until, n)
            dl2 == s.leaseDeadlines \cup {<<until, n>>}
<1>0. /\ QueueOK(s) /\ StatesOK(s.states) /\ s.ready \in Seq(Envelopes) /\ FlightsOK(s.inFlight)
      /\ s.leaseDeadlines \in SUBSET (Nat \X LeaseIds)
      /\ s.delayed \in SUBSET (Nat \X Envelopes)
  BY DEF QueueInv, QueueOK
<1>1. n \in Nat /\ n >= 1 /\ DOMAIN s.inFlight \subseteq 1..(n - 1)
  BY MaxLeasesNat, SMT DEF QueueInv, LeaseIds
<1>2. n \notin DOMAIN s.inFlight
  BY <1>1, SMT
<1>3. /\ StatesOK(st2)
      /\ FlightsOK(fl2)
      /\ DOMAIN fl2 = DOMAIN s.inFlight \cup {n}
      /\ ReadyExact(st2, Tail(s.ready))
      /\ LeasesExact(st2, fl2, dl2)
      /\ DelayedExact(st2, s.delayed)
      /\ Housed(st2, s.delayed, {})
  <2>1. /\ ReadyExact(s.states, s.ready)
        /\ LeasesExact(s.states, s.inFlight, s.leaseDeadlines)
        /\ DelayedExact(s.states, s.delayed) /\ Housed(s.states, s.delayed, {})
    BY DEF QueueInv
  <2>. QED BY <1>0, <1>2, <2>1, GrantParts
<1>4. Tail(s.ready) \in Seq(Envelopes)
  BY <1>0, HeadTailProperties
<1>5. s.waiters = {}
  BY DEF QueueInv, WakeupOK
<1>6. PICK r : r = Grant(s, until, n)
  OBVIOUS
<1>7. /\ DOMAIN r = DOMAIN s
      /\ r.states = st2
      /\ r.ready = Tail(s.ready)
      /\ r.inFlight = fl2
      /\ r.leaseDeadlines = dl2
      /\ r.delayed = s.delayed
      /\ r.readyEvent = s.readyEvent
      /\ r.waiters = s.waiters
  BY <1>0, <1>6 DEF Grant, QueueOK
<1>8. dl2 \subseteq Nat \X LeaseIds
  BY <1>0, SMT
<1>. HIDE DEF st2, fl2, dl2
<1>9. QueueOK(r)
  BY <1>0, <1>3, <1>4, <1>7, <1>8 DEF QueueOK
<1>10. DOMAIN r.inFlight \subseteq 1..((n + 1) - 1)
  BY <1>1, <1>3, <1>7, SMT
<1>11. WakeupOK(r.ready, r.waiters)
  BY <1>5, <1>7 DEF WakeupOK
<1>. QED BY <1>3, <1>6, <1>7, <1>9, <1>10, <1>11 DEF QueueInv

\* Clearing the event and joining its waiters is safe because _ready is empty.
LEMMA WaitInv ==
    ASSUME NEW s, NEW n \in Nat, QueueInv(s, n, {}), s.ready = <<>>,
           NEW W \in SUBSET Consumers
    PROVE  QueueInv([s EXCEPT !.readyEvent = FALSE, !.waiters = W], n, {})
<1>0. QueueOK(s)
  BY DEF QueueInv
<1>1. PICK r : r = [s EXCEPT !.readyEvent = FALSE, !.waiters = W]
  OBVIOUS
<1>2. /\ DOMAIN r = DOMAIN s
      /\ r.states = s.states
      /\ r.ready = s.ready
      /\ r.inFlight = s.inFlight
      /\ r.leaseDeadlines = s.leaseDeadlines
      /\ r.delayed = s.delayed
      /\ r.readyEvent = FALSE
      /\ r.waiters = W
  BY <1>0, <1>1 DEF QueueOK
<1>3. QueueOK(r)
  BY <1>0, <1>2 DEF QueueOK
<1>4. WakeupOK(r.ready, r.waiters)
  BY <1>2 DEF WakeupOK
<1>. QED BY <1>1, <1>2, <1>3, <1>4 DEF QueueInv

----------------------------------------------------------------------------
(* The invariant *)

LEMMA EmptyQueueInv ==
    ASSUME NEW n \in Nat \ {0}, NEW r,
           DOMAIN r = {"states", "ready", "inFlight", "leaseDeadlines", "delayed",
                       "readyEvent", "waiters"},
           r.states = EmptyFunction, r.ready = <<>>, r.inFlight = EmptyFunction,
           r.leaseDeadlines = {}, r.delayed = {}, r.readyEvent \in BOOLEAN, r.waiters = {}
    PROVE  QueueInv(r, n, {})
<1>3. DOMAIN EmptyFunction = {} /\ StatesOK(EmptyFunction) /\ FlightsOK(EmptyFunction)
  BY DEF EmptyFunction, StatesOK, FlightsOK
<1>4. QueueOK(r)
  BY <1>3, SMT DEF QueueOK
<1>5. ReadyExact(EmptyFunction, <<>>)
  BY <1>3, SMT DEF ReadyExact
<1>6. LeasesExact(EmptyFunction, EmptyFunction, {})
  BY <1>3 DEF LeasesExact, LeasesCurrent
<1>7. DelayedExact(EmptyFunction, {}) /\ Housed(EmptyFunction, {}, {})
  BY <1>3 DEF DelayedExact, Housed
<1>8. WakeupOK(<<>>, {})
  BY DEF WakeupOK
<1>. QED BY <1>3, <1>4, <1>5, <1>6, <1>7, <1>8 DEF QueueInv

\* A turn of the loop of dequeue(): delivered, or nothing deliverable.
LEMMA TryDequeueInv ==
    ASSUME IInv, NEW c \in Consumers, NEW timeout \in Timeouts, NEW wait \in BOOLEAN,
           TryDequeue(c, timeout, wait)
    PROVE  /\ QueueInv(q', nextLease', {})
           /\ nextLease' \in 1..(MaxLeases + 1)
           /\ waiting' \in SUBSET Consumers
<1>1. /\ QueueInv(q, nextLease, {}) /\ nextLease \in Nat /\ now \in Nat /\ timeout \in Nat
      /\ nextLease \in 1..(MaxLeases + 1) /\ waiting \in SUBSET Consumers
  BY TimesAreNat, MaxLeasesNat, SMT DEF IInv, TypeOK, Clock
<1>2. PICK s \in Refreshed(q, now) :
        \/ \E n \in 0..(Len(s.ready) - 1) :
            /\ nextLease \in LeaseIds
            /\ q' = Grant(SkipReady(s, n), now + timeout, nextLease)
            /\ nextLease' = nextLease + 1
            /\ waiting' = waiting \ {c}
        \/ /\ q' = [SkipReady(s, Len(s.ready)) EXCEPT
                       !.readyEvent = FALSE,
                       !.waiters = IF wait THEN @ \cup {c} ELSE @]
           /\ waiting' = IF wait THEN waiting \cup {c} ELSE waiting \ {c}
           /\ UNCHANGED nextLease
  BY DEF TryDequeue
<1>3. QueueInv(s, nextLease, {})
  BY <1>1, RefreshInv
<1>4. s.ready \in Seq(Envelopes) /\ Len(s.ready) \in Nat
  BY <1>3, LenProperties DEF QueueInv, QueueOK
<1>5. CASE \E n \in 0..(Len(s.ready) - 1) :
            /\ nextLease \in LeaseIds
            /\ q' = Grant(SkipReady(s, n), now + timeout, nextLease)
            /\ nextLease' = nextLease + 1
            /\ waiting' = waiting \ {c}
  <2>1. PICK n \in 0..(Len(s.ready) - 1) :
            /\ nextLease \in LeaseIds
            /\ q' = Grant(SkipReady(s, n), now + timeout, nextLease)
            /\ nextLease' = nextLease + 1
            /\ waiting' = waiting \ {c}
    BY <1>5
  <2>2. n \in 0..Len(s.ready) /\ Len(s.ready) - n # 0
    BY <1>4, SMT
  <2>3. /\ QueueInv(SkipReady(s, n), nextLease, {})
        /\ SkipReady(s, n).ready = SubSeq(s.ready, n + 1, Len(s.ready))
    BY <1>1, <1>3, <2>2, SkipReadyInv
  <2>4. Len(SubSeq(s.ready, n + 1, Len(s.ready))) = Len(s.ready) - n
    BY <1>4, <2>2, DropFirst
  <2>5. SkipReady(s, n).ready # <<>>
    BY <2>2, <2>3, <2>4, EmptySeq
  <2>6. now + timeout \in Nat
    BY <1>1, SMT
  <2>7. QueueInv(Grant(SkipReady(s, n), now + timeout, nextLease), nextLease + 1, {})
    BY <2>1, <2>3, <2>5, <2>6, GrantInv
  <2>8. nextLease + 1 \in 1..(MaxLeases + 1)
    BY <2>1, MaxLeasesNat, SMT DEF LeaseIds
  <2>. QED BY <1>1, <2>1, <2>7, <2>8
<1>6. CASE /\ q' = [SkipReady(s, Len(s.ready)) EXCEPT
                       !.readyEvent = FALSE,
                       !.waiters = IF wait THEN @ \cup {c} ELSE @]
           /\ waiting' = IF wait THEN waiting \cup {c} ELSE waiting \ {c}
           /\ UNCHANGED nextLease
  <2>1. PICK r : r = SkipReady(s, Len(s.ready))
    OBVIOUS
  <2>2. /\ QueueInv(r, nextLease, {})
        /\ r.ready = SubSeq(s.ready, Len(s.ready) + 1, Len(s.ready))
    <3>1. Len(s.ready) \in 0..Len(s.ready)
      BY <1>4, SMT
    <3>2. /\ QueueInv(SkipReady(s, Len(s.ready)), nextLease, {})
          /\ SkipReady(s, Len(s.ready)).ready = SubSeq(s.ready, Len(s.ready) + 1, Len(s.ready))
      BY <1>1, <1>3, <3>1, SkipReadyInv
    <3>. QED BY <2>1, <3>2
  <2>3. r.ready = <<>>
    BY <1>4, <2>2, SubSeqEmpty, SMT
  <2>4. PICK W : W = IF wait THEN r.waiters \cup {c} ELSE r.waiters
    OBVIOUS
  <2>5. W \in SUBSET Consumers
    BY <2>2, <2>4 DEF QueueInv, QueueOK
  <2>6. q' = [r EXCEPT !.readyEvent = FALSE, !.waiters = W]
    <3>1. QueueOK(r)
      BY <2>2 DEF QueueInv
    <3>. QED BY <1>6, <2>1, <2>4, <3>1 DEF QueueOK
  <2>7. QueueInv(q', nextLease, {})
    BY <1>1, <2>2, <2>3, <2>5, <2>6, WaitInv
  <2>. QED BY <1>1, <1>6, <2>7
<1>. QED BY <1>2, <1>5, <1>6

\* The queue is left in a good state whichever operation runs, in any interleaving.
LEMMA InitInv == Init => IInv
<1>. SUFFICES ASSUME Init PROVE IInv
  OBVIOUS
<1>1. /\ DOMAIN q = {"states", "ready", "inFlight", "leaseDeadlines", "delayed",
                     "readyEvent", "waiters"}
      /\ q.states = EmptyFunction /\ q.ready = <<>> /\ q.inFlight = EmptyFunction
      /\ q.leaseDeadlines = {} /\ q.delayed = {} /\ q.readyEvent = FALSE /\ q.waiters = {}
  BY DEF Init, EmptyQueue
<1>2. nextLease = 1 /\ now \in Clock /\ closed = FALSE /\ waiting = {}
      /\ background = FALSE /\ settled = {}
  BY DEF Init
<1>3. QueueInv(q, nextLease, {})
  <2>1. nextLease \in Nat \ {0}
    BY <1>2, SMT
  <2>2. q.readyEvent \in BOOLEAN
    BY <1>1
  <2>. QED BY <1>1, <2>1, <2>2, EmptyQueueInv
<1>4. QueueOK(q)
  BY <1>3 DEF QueueInv
<1>5. nextLease \in 1..(MaxLeases + 1)
  BY <1>2, MaxLeasesNat, SMT
<1>. QED BY <1>2, <1>3, <1>4, <1>5 DEF IInv, TypeOK

LEMMA NextInv == IInv /\ [Next]_vars => IInv'
<1>. SUFFICES ASSUME IInv, [Next]_vars PROVE IInv'
  OBVIOUS
<1>0. /\ QueueInv(q, nextLease, {}) /\ nextLease \in Nat \ {0} /\ now \in Nat
      /\ TypeOK /\ nextLease \in 1..(MaxLeases + 1)
  BY TimesAreNat, MaxLeasesNat, SMT DEF IInv, TypeOK, Clock
<1>1. ASSUME NEW e \in Envelopes, NEW at \in Clock, enqueue(e, at) PROVE IInv'
  <2>1. PICK s \in Refreshed(q, now) :
          q' = IF e \in DOMAIN s.states THEN s ELSE Insert(s, e, at, now)
    BY <1>1 DEF enqueue
  <2>2. QueueInv(s, nextLease, {})
    BY <1>0, RefreshInv
  <2>3. at \in Nat
    BY TimesAreNat, SMT DEF Clock
  <2>4. e \notin DOMAIN s.states => QueueInv(Insert(s, e, at, now), nextLease, {})
    BY <1>0, <2>2, <2>3, InsertInv
  <2>5. QueueInv(q', nextLease, {})
    BY <2>1, <2>2, <2>4
  <2>6. QueueOK(q')
    BY <2>5 DEF QueueInv
  <2>. QED BY <1>0, <1>1, <2>5, <2>6 DEF enqueue, IInv, TypeOK
<1>2. ASSUME NEW c \in Consumers, NEW timeout \in Timeouts, NEW wait \in BOOLEAN,
             dequeue(c, timeout, wait)
      PROVE  IInv'
  <2>1. /\ QueueInv(q', nextLease', {})
        /\ nextLease' \in 1..(MaxLeases + 1)
        /\ waiting' \in SUBSET Consumers
    BY <1>2, TryDequeueInv DEF dequeue
  <2>2. QueueOK(q')
    BY <2>1 DEF QueueInv
  <2>. QED BY <1>0, <1>2, <2>1, <2>2 DEF dequeue, IInv, TypeOK
<1>3. ASSUME NEW c \in Consumers, NEW timeout \in Timeouts, ResumeDequeue(c, timeout)
      PROVE  IInv'
  <2>1. /\ QueueInv(q', nextLease', {})
        /\ nextLease' \in 1..(MaxLeases + 1)
        /\ waiting' \in SUBSET Consumers
    BY <1>3, TryDequeueInv DEF ResumeDequeue
  <2>2. QueueOK(q')
    BY <2>1 DEF QueueInv
  <2>. QED BY <1>0, <1>3, <2>1, <2>2 DEF ResumeDequeue, IInv, TypeOK
<1>4. ASSUME NEW c \in Consumers, LeaveDequeue(c) PROVE IInv'
  <2>1. QueueOK(q)
    BY <1>0 DEF QueueInv
  <2>2. /\ DOMAIN q' = DOMAIN q
        /\ q'.states = q.states
        /\ q'.ready = q.ready
        /\ q'.inFlight = q.inFlight
        /\ q'.leaseDeadlines = q.leaseDeadlines
        /\ q'.delayed = q.delayed
        /\ q'.readyEvent = q.readyEvent
        /\ q'.waiters = q.waiters \ {c}
    BY <1>4, <2>1 DEF LeaveDequeue, QueueOK
  <2>3. QueueOK(q')
    BY <2>1, <2>2 DEF QueueOK
  <2>4. WakeupOK(q'.ready, q'.waiters)
    BY <1>0, <2>2 DEF QueueInv, WakeupOK
  <2>5. QueueInv(q', nextLease, {})
    BY <1>0, <2>2, <2>3, <2>4 DEF QueueInv
  <2>. QED BY <1>0, <1>4, <2>3, <2>5 DEF LeaveDequeue, IInv, TypeOK
<1>5. ASSUME NEW l \in 1..(nextLease - 1), ack(l) PROVE IInv'
  <2>1. PICK s \in Expiries(q, now) : q' = Settle(s, l)
    BY <1>5 DEF ack
  <2>2. QueueInv(s, nextLease, {})
    BY <1>0, ExpireInv
  <2>3. QueueInv(q', nextLease, {})
    BY <1>0, <2>1, <2>2, SettleInv
  <2>4. QueueOK(q')
    BY <2>3 DEF QueueInv
  <2>5. l \in LeaseIds
    BY <1>0, MaxLeasesNat, SMT DEF LeaseIds
  <2>. QED BY <1>0, <1>5, <2>3, <2>4, <2>5 DEF ack, IInv, TypeOK
<1>6. ASSUME NEW l \in 1..(nextLease - 1), NEW delay \in Delays, nack(l, delay) PROVE IInv'
  <2>1. PICK s \in Refreshed(q, now) :
          \/ /\ ActiveEnvelopes(s.states, s.inFlight, l) = {}
             /\ q' = Unlease(s, l, now)
          \/ \E e \in ActiveEnvelopes(s.states, s.inFlight, l) :
                q' = MakeAvailable(Unlease(s, l, now), e, now + delay, now)
    BY <1>6 DEF nack
  <2>2. QueueInv(s, nextLease, {})
    BY <1>0, RefreshInv
  <2>3. QueueInv(Unlease(s, l, now), nextLease, ActiveEnvelopes(s.states, s.inFlight, l))
    BY <1>0, <2>2, UnleaseInv
  <2>4. ASSUME NEW e \in ActiveEnvelopes(s.states, s.inFlight, l)
        PROVE  QueueInv(MakeAvailable(Unlease(s, l, now), e, now + delay, now), nextLease, {})
    <3>1. ActiveEnvelopes(s.states, s.inFlight, l) = {e}
      BY DEF ActiveEnvelopes
    <3>2. e \in Envelopes
      <4>1. StatesOK(s.states)
        BY <2>2 DEF QueueInv, QueueOK
      <4>. QED BY <4>1 DEF ActiveEnvelopes, StatesOK
    <3>3. now + delay \in Nat
      BY <1>0, TimesAreNat, SMT
    <3>. QED BY <1>0, <2>3, <3>1, <3>2, <3>3, MakeAvailableInv
  <2>5. QueueInv(q', nextLease, {})
    BY <2>1, <2>3, <2>4
  <2>6. QueueOK(q')
    BY <2>5 DEF QueueInv
  <2>7. l \in LeaseIds
    BY <1>0, MaxLeasesNat, SMT DEF LeaseIds
  <2>. QED BY <1>0, <1>6, <2>5, <2>6, <2>7 DEF nack, IInv, TypeOK
<1>7. ASSUME aclose PROVE IInv'
  <2>0. /\ DOMAIN q' = {"states", "ready", "inFlight", "leaseDeadlines", "delayed",
                        "readyEvent", "waiters"}
        /\ q'.states = EmptyFunction /\ q'.ready = <<>> /\ q'.inFlight = EmptyFunction
        /\ q'.leaseDeadlines = {} /\ q'.delayed = {} /\ q'.readyEvent = TRUE
        /\ q'.waiters = {}
    BY <1>7 DEF aclose, EmptyQueue
  <2>1. QueueInv(q', nextLease, {})
    BY <1>0, <2>0, EmptyQueueInv
  <2>2. QueueOK(q')
    BY <2>1 DEF QueueInv
  <2>. QED BY <1>0, <1>7, <2>1, <2>2 DEF aclose, IInv, TypeOK
<1>8. ASSUME delayed_promoter_loop PROVE IInv'
  <2>1. QueueInv(q', nextLease, {})
    BY <1>0, <1>8, PromoteInv DEF delayed_promoter_loop
  <2>2. QueueOK(q')
    BY <2>1 DEF QueueInv
  <2>. QED BY <1>0, <1>8, <2>1, <2>2 DEF delayed_promoter_loop, IInv, TypeOK
<1>9. ASSUME lease_reaper_loop PROVE IInv'
  <2>1. QueueInv(q', nextLease, {})
    BY <1>0, <1>9, ExpireInv DEF lease_reaper_loop
  <2>2. QueueOK(q')
    BY <2>1 DEF QueueInv
  <2>. QED BY <1>0, <1>9, <2>1, <2>2 DEF lease_reaper_loop, IInv, TypeOK
<1>10. ASSUME ClockMoves PROVE IInv'
  BY <1>0, <1>10 DEF ClockMoves, IInv, TypeOK
<1>11. ASSUME UNCHANGED vars PROVE IInv'
  BY <1>0, <1>11 DEF vars, IInv, TypeOK
<1>. QED BY <1>1, <1>2, <1>3, <1>4, <1>5, <1>6, <1>7, <1>8, <1>9, <1>10, <1>11 DEF Next

LEMMA InvariantHolds == Spec => []IInv
BY InitInv, NextInv, PTL DEF Spec

\* Every attribute of the queue stays well formed, for any number of envelopes and
\* consumers and any timeouts and delays.
THEOREM TypeCorrect == Spec => []TypeOK
<1>1. IInv => TypeOK
  BY DEF IInv
<1>. QED BY <1>1, InvariantHolds, PTL

\* No interleaving of enqueue, dequeue, ack, nack, lease expiry, promotion and clock
\* steps loses an envelope or files it in two places.
THEOREM EnvelopesAreNeverLost == Spec => []NoEnvelopeLost
<1>1. ASSUME NEW st, NEW rd, NEW fl, NEW dl, NEW de, NEW e \in DOMAIN st,
             ReadyExact(st, rd), LeasesExact(st, fl, dl), DelayedExact(st, de), Housed(st, de, {})
      PROVE  Unlost(st, rd, fl, dl, de, e)
  <2>1. UnderLease(st, fl, dl, e) \/ InReady(rd, e) \/ InDelayed(st, de, e)
    BY <1>1 DEF Housed, LeasesExact, ReadyExact
  <2>2. InReady(rd, e) => st[e].in_ready
    BY <1>1 DEF ReadyExact, InReady
  <2>3. InDelayed(st, de, e) => ~st[e].in_ready /\ ~Leased(st, e)
    BY <1>1 DEF DelayedExact, InDelayed
  <2>4. Leased(st, e) => ~st[e].in_ready
    BY <1>1 DEF LeasesExact
  <2>5. \A i, j \in DOMAIN rd : rd[i] = e /\ rd[j] = e => i = j
    BY <1>1 DEF ReadyExact
  <2>. QED BY <2>1, <2>2, <2>3, <2>4, <2>5 DEF Unlost
<1>2. IInv => NoEnvelopeLost
  BY <1>1 DEF IInv, QueueInv, NoEnvelopeLost
<1>. QED BY <1>2, InvariantHolds, PTL

\* Two live leases never deliver the same envelope, and _in_flight keeps no
\* superseded lease.
THEOREM LeasesAreExclusive == Spec => []OneLeasePerEnvelope
<1>1. IInv => OneLeasePerEnvelope
  BY DEF IInv, QueueInv, LeasesExact, OneLeasePerEnvelope
<1>. QED BY <1>1, InvariantHolds, PTL

\* No consumer is suspended on _ready_event while _ready holds an envelope.
THEOREM WakeupsAreNotLost == Spec => []NoLostWakeup
<1>1. IInv => NoLostWakeup
  BY DEF IInv, QueueInv, WakeupOK, NoLostWakeup
<1>. QED BY <1>1, InvariantHolds, PTL

----------------------------------------------------------------------------
(***************************************************************************)
(* InMemoryQueue implements QueueContract.  The refinement mapping reads   *)
(* only the envelope states and the in-flight leases (DueOf, LeaseOf,      *)
(* DeadlineOf, AttemptOf).  A lemma per helper of the package says what    *)
(* the helper does to those four functions; an operation composes helpers, *)
(* so the step of the contract it takes follows from their lemmas.         *)
(***************************************************************************)

----------------------------------------------------------------------------
(* The invariant of the refinement.                                          *)

\* The entry of the deadline heap for a lease still in flight is its deadline: no
\* lease is pushed twice.  Without it a lease could be taken back before its time.
DeadlinesExact(fl, dl, n) ==
    \A d \in dl : d[2] < n /\ (d[2] \in DOMAIN fl => fl[d[2]].deadline_ms = d[1])

RefinementInv == IInv /\ DeadlinesExact(q.inFlight, q.leaseDeadlines, nextLease)

\* r shows the contract the same envelopes, due times, leases, deadlines and attempts
\* as s.
SameView(r, s) ==
    /\ DOMAIN r.states = DOMAIN s.states
    /\ DueOf(r.states) = DueOf(s.states)
    /\ LeaseOf(r.states) = LeaseOf(s.states)
    /\ DeadlineOf(r.states, r.inFlight) = DeadlineOf(s.states, s.inFlight)
    /\ AttemptOf(r.states) = AttemptOf(s.states)

\* r is s once the leases of the envelopes of X have been taken back at time t.
TakenBack(r, s, X, t) ==
    /\ DOMAIN r.states = DOMAIN s.states
    /\ DueOf(r.states) = [e \in Envelopes |-> IF e \in X THEN t ELSE DueOf(s.states)[e]]
    /\ LeaseOf(r.states) = [e \in Envelopes |-> IF e \in X THEN NoLease ELSE LeaseOf(s.states)[e]]
    /\ DeadlineOf(r.states, r.inFlight) =
           [e \in Envelopes |-> IF e \in X THEN 0 ELSE DeadlineOf(s.states, s.inFlight)[e]]
    /\ AttemptOf(r.states) = AttemptOf(s.states)

----------------------------------------------------------------------------
(* What each helper shows the contract.                                      *)

\* in_ready, _ready, the heaps and the event are not part of the contract's state.
LEMMA SameStatesView ==
    ASSUME NEW r, NEW s, DOMAIN r.states = DOMAIN s.states, r.inFlight = s.inFlight,
           \A e \in DOMAIN s.states :
               /\ r.states[e].next_attempt = s.states[e].next_attempt
               /\ r.states[e].active_lease_id = s.states[e].active_lease_id
               /\ r.states[e].available_at_ms = s.states[e].available_at_ms
    PROVE  SameView(r, s)
BY DEF SameView, DueOf, LeaseOf, DeadlineOf, AttemptOf, Leased

LEMMA PushReadyView ==
    ASSUME NEW s, QueueOK(s), NEW b
    PROVE  /\ SameView(push_ready(s, b), s)
           /\ push_ready(s, b).inFlight = s.inFlight
           /\ push_ready(s, b).leaseDeadlines = s.leaseDeadlines
<1>1. PICK r : r = push_ready(s, b)
  OBVIOUS
<1>2. /\ r.states = MarkReady(s.states, Range(b))
      /\ r.inFlight = s.inFlight
      /\ r.leaseDeadlines = s.leaseDeadlines
  BY <1>1 DEF push_ready, QueueOK
<1>3. StatesOK(s.states)
  BY DEF QueueOK
<1>4. SameView(r, s)
  BY <1>2, <1>3, MarkReadyFields, SameStatesView, SMT
<1>. QED BY <1>1, <1>2, <1>4

LEMMA ReleasedAttempts ==
    ASSUME NEW st, StatesOK(st), NEW E, NEW t
    PROVE  \A e \in DOMAIN st : Released(st, E, t)[e].next_attempt = st[e].next_attempt
BY DEF Released, StatesOK, EnvelopeState

\* Taking back the due leases: all of them are overdue, every other lease stays.
LEMMA PopExpiredView ==
    ASSUME NEW st, StatesOK(st), NEW fl, FlightsOK(fl), NEW t \in Nat, NEW n \in Nat,
           NEW dl \in SUBSET (Nat \X LeaseIds), LeasesExact(st, fl, dl), DeadlinesExact(fl, dl, n)
    PROVE  LET X == TimedOut(st, fl, dl, t)
               st2 == Released(st, X, t)
               fl2 == DropLeases(fl, DueLeases(dl, t))
           IN  /\ X \subseteq DOMAIN st
               /\ \A e \in X : LeaseOf(st)[e] # NoLease /\ DeadlineOf(st, fl)[e] <= t
               /\ DOMAIN st2 = DOMAIN st
               /\ DueOf(st2) = [e \in Envelopes |-> IF e \in X THEN t ELSE DueOf(st)[e]]
               /\ LeaseOf(st2) = [e \in Envelopes |-> IF e \in X THEN NoLease ELSE LeaseOf(st)[e]]
               /\ AttemptOf(st2) = AttemptOf(st)
               /\ DeadlineOf(st2, fl2) =
                      [e \in Envelopes |-> IF e \in X THEN 0 ELSE DeadlineOf(st, fl)[e]]
               /\ DeadlinesExact(fl2, NotDue(dl, t), n)
<1>. DEFINE X == TimedOut(st, fl, dl, t)
            st2 == Released(st, X, t)
            L == DueLeases(dl, t)
            fl2 == DropLeases(fl, L)
<1>1. X \subseteq DOMAIN st /\ DOMAIN st \subseteq Envelopes
  BY DEF TimedOut, StatesOK
<1>2. ASSUME NEW e \in X
      PROVE  Leased(st, e) /\ fl[st[e].active_lease_id].deadline_ms <= t
  <2>1. st[e].active_lease_id \in DOMAIN fl
    BY DEF TimedOut
  <2>2. PICK d \in dl : d[1] <= t /\ d[2] = st[e].active_lease_id
    BY DEF TimedOut, DueLeases
  <2>. QED BY <2>1, <2>2, LeaseIdsNotNone DEF DeadlinesExact, Leased, FlightsOK
<1>3. \A e \in X : LeaseOf(st)[e] # NoLease /\ DeadlineOf(st, fl)[e] <= t
  BY <1>1, <1>2 DEF LeaseOf, DeadlineOf, Leased
<1>4. /\ DOMAIN st2 = DOMAIN st
      /\ \A e \in DOMAIN st :
           /\ st2[e].active_lease_id = IF e \in X THEN NoLease ELSE st[e].active_lease_id
           /\ st2[e].available_at_ms = IF e \in X THEN t ELSE st[e].available_at_ms
  BY ReleasedFields, SMT
<1>5. \A e \in DOMAIN st : st2[e].next_attempt = st[e].next_attempt
  BY ReleasedAttempts, SMT
<1>6. DOMAIN fl2 = DOMAIN fl \ L /\ \A l \in DOMAIN fl \ L : fl2[l] = fl[l]
  BY DropLeasesFields
<1>7. \A e \in DOMAIN st \ X : Leased(st, e) => st[e].active_lease_id \in DOMAIN fl \ L
  BY DEF LeasesExact, UnderLease, TimedOut
<1>. HIDE DEF X, st2, fl2
<1>8. /\ DueOf(st2) = [e \in Envelopes |-> IF e \in X THEN t ELSE DueOf(st)[e]]
      /\ LeaseOf(st2) = [e \in Envelopes |-> IF e \in X THEN NoLease ELSE LeaseOf(st)[e]]
      /\ AttemptOf(st2) = AttemptOf(st)
  BY <1>1, <1>4, <1>5 DEF DueOf, LeaseOf, AttemptOf
<1>9. DeadlineOf(st2, fl2) = [e \in Envelopes |-> IF e \in X THEN 0 ELSE DeadlineOf(st, fl)[e]]
  BY <1>1, <1>4, <1>6, <1>7 DEF DeadlineOf, Leased
<1>10. DeadlinesExact(fl2, NotDue(dl, t), n)
  BY <1>6 DEF DeadlinesExact, NotDue
<1>. QED BY <1>1, <1>3, <1>4, <1>8, <1>9, <1>10 DEF X, st2, fl2

\* expire_leases takes back overdue leases and does nothing else the contract sees.
LEMMA ExpireView ==
    ASSUME NEW s, NEW n \in Nat, NEW t \in Nat, QueueInv(s, n, {}),
           DeadlinesExact(s.inFlight, s.leaseDeadlines, n), NEW r \in Expiries(s, t)
    PROVE  \E X \in SUBSET DOMAIN s.states :
              /\ \A e \in X : /\ LeaseOf(s.states)[e] # NoLease
                              /\ DeadlineOf(s.states, s.inFlight)[e] <= t
              /\ TakenBack(r, s, X, t)
              /\ DeadlinesExact(r.inFlight, r.leaseDeadlines, n)
<1>. DEFINE X == TimedOut(s.states, s.inFlight, s.leaseDeadlines, t)
            st2 == Released(s.states, X, t)
            fl2 == DropLeases(s.inFlight, DueLeases(s.leaseDeadlines, t))
<1>0. /\ QueueOK(s) /\ StatesOK(s.states) /\ FlightsOK(s.inFlight)
      /\ LeasesExact(s.states, s.inFlight, s.leaseDeadlines)
      /\ s.leaseDeadlines \in SUBSET (Nat \X LeaseIds)
  BY DEF QueueInv, QueueOK
<1>1. PICK b : r = push_ready(PopExpired(s, t), b)
  BY DEF Expiries, expire_leases
<1>2. PICK p : p = PopExpired(s, t)
  OBVIOUS
<1>3. /\ DOMAIN p = DOMAIN s /\ p.ready = s.ready /\ p.delayed = s.delayed
      /\ p.readyEvent = s.readyEvent /\ p.waiters = s.waiters
      /\ p.states = st2 /\ p.inFlight = fl2
      /\ p.leaseDeadlines = NotDue(s.leaseDeadlines, t)
  BY <1>0, <1>2 DEF PopExpired, QueueOK
<1>4. QueueOK(p)
  <2>1. StatesOK(p.states)
    BY <1>0, <1>3, ReleasedFields, SMT
  <2>2. FlightsOK(p.inFlight)
    BY <1>0, <1>3, DropLeasesType
  <2>3. p.leaseDeadlines \subseteq Nat \X LeaseIds
    BY <1>0, <1>3 DEF NotDue
  <2>. QED BY <1>0, <1>3, <2>1, <2>2, <2>3 DEF QueueOK
<1>5. /\ X \subseteq DOMAIN s.states
      /\ \A e \in X : LeaseOf(s.states)[e] # NoLease /\ DeadlineOf(s.states, s.inFlight)[e] <= t
      /\ TakenBack(p, s, X, t)
      /\ DeadlinesExact(p.inFlight, p.leaseDeadlines, n)
  <2>. HIDE DEF X
  <2>1. X = TimedOut(s.states, s.inFlight, s.leaseDeadlines, t)
    BY DEF X
  <2>. QED BY <1>0, <1>3, <2>1, PopExpiredView, SMT DEF TakenBack
<1>. HIDE DEF X
<1>6. SameView(r, p) /\ r.inFlight = p.inFlight /\ r.leaseDeadlines = p.leaseDeadlines
  BY <1>1, <1>2, <1>4, PushReadyView
<1>7. TakenBack(r, s, X, t)
  BY <1>5, <1>6 DEF TakenBack, SameView
<1>. QED BY <1>5, <1>6, <1>7

\* promote_delayed moves envelopes between the heap and _ready only.
LEMMA PromoteView ==
    ASSUME NEW s, NEW t, QueueOK(s), NEW r \in Promotions(s, t)
    PROVE  SameView(r, s) /\ r.inFlight = s.inFlight /\ r.leaseDeadlines = s.leaseDeadlines
<1>1. PICK b : r = push_ready([s EXCEPT !.delayed = NotDue(s.delayed, t)], b)
  BY DEF Promotions, promote_delayed
<1>2. PICK p : p = [s EXCEPT !.delayed = NotDue(s.delayed, t)]
  OBVIOUS
<1>3. /\ p.states = s.states /\ p.inFlight = s.inFlight /\ p.leaseDeadlines = s.leaseDeadlines
      /\ QueueOK(p)
  BY <1>2 DEF QueueOK, NotDue
<1>4. SameView(p, s)
  BY <1>3 DEF SameView
<1>5. SameView(r, p) /\ r.inFlight = p.inFlight /\ r.leaseDeadlines = p.leaseDeadlines
  BY <1>1, <1>2, <1>3, PushReadyView
<1>. QED BY <1>3, <1>4, <1>5 DEF SameView

\* The common prefix of the operations: overdue leases are taken back, nothing else
\* of what the contract sees changes.
LEMMA RefreshView ==
    ASSUME NEW s, NEW n \in Nat, NEW t \in Nat, QueueInv(s, n, {}),
           DeadlinesExact(s.inFlight, s.leaseDeadlines, n), NEW r \in Refreshed(s, t)
    PROVE  \E X \in SUBSET DOMAIN s.states :
              /\ \A e \in X : /\ LeaseOf(s.states)[e] # NoLease
                              /\ DeadlineOf(s.states, s.inFlight)[e] <= t
              /\ TakenBack(r, s, X, t)
              /\ DeadlinesExact(r.inFlight, r.leaseDeadlines, n)
<1>1. PICK s1 \in Expiries(s, t) : r \in Promotions(s1, t)
  BY DEF Refreshed
<1>2. QueueInv(s1, n, {}) /\ QueueOK(s1)
  BY ExpireInv DEF QueueInv
<1>3. PICK X \in SUBSET DOMAIN s.states :
              /\ \A e \in X : /\ LeaseOf(s.states)[e] # NoLease
                              /\ DeadlineOf(s.states, s.inFlight)[e] <= t
              /\ TakenBack(s1, s, X, t)
              /\ DeadlinesExact(s1.inFlight, s1.leaseDeadlines, n)
  BY ExpireView
<1>4. SameView(r, s1) /\ r.inFlight = s1.inFlight /\ r.leaseDeadlines = s1.leaseDeadlines
  BY <1>1, <1>2, PromoteView
<1>5. TakenBack(r, s, X, t) /\ DeadlinesExact(r.inFlight, r.leaseDeadlines, n)
  BY <1>3, <1>4 DEF TakenBack, SameView
<1>. QED BY <1>3, <1>5

\* try_dequeue passing over the head of _ready moves envelopes between _ready and the
\* heap only.
LEMMA SkipReadyView ==
    ASSUME NEW s, QueueOK(s), NEW k
    PROVE  /\ SameView(SkipReady(s, k), s)
           /\ SkipReady(s, k).inFlight = s.inFlight
           /\ SkipReady(s, k).leaseDeadlines = s.leaseDeadlines
<1>. DEFINE B == {s.ready[i] : i \in 1..k} \cap DOMAIN s.states
            st2 == UnmarkReady(s.states, B)
<1>1. PICK r : r = SkipReady(s, k)
  OBVIOUS
<1>2. r.states = st2 /\ r.inFlight = s.inFlight /\ r.leaseDeadlines = s.leaseDeadlines
  BY <1>1 DEF SkipReady, push_delayed, QueueOK
<1>3. /\ DOMAIN st2 = DOMAIN s.states
      /\ \A e \in DOMAIN s.states :
           /\ st2[e].next_attempt = s.states[e].next_attempt
           /\ st2[e].active_lease_id = s.states[e].active_lease_id
           /\ st2[e].available_at_ms = s.states[e].available_at_ms
  BY DEF UnmarkReady, QueueOK, StatesOK, EnvelopeState
<1>. HIDE DEF st2
<1>4. SameView(r, s)
  BY <1>2, <1>3, SameStatesView, SMT
<1>. QED BY <1>1, <1>2, <1>4

\* r is s once e has been delivered under lease l until the given time.
Delivered(r, s, e, l, until) ==
    /\ DOMAIN r.states = DOMAIN s.states
    /\ DueOf(r.states) = DueOf(s.states)
    /\ LeaseOf(r.states) = [LeaseOf(s.states) EXCEPT ![e] = l]
    /\ DeadlineOf(r.states, r.inFlight) = [DeadlineOf(s.states, s.inFlight) EXCEPT ![e] = until]
    /\ AttemptOf(r.states) = [AttemptOf(s.states) EXCEPT ![e] = @ + 1]

\* The head of _ready goes under the new lease.
LEMMA GrantView ==
    ASSUME NEW s, NEW n \in LeaseIds, NEW until \in Nat, QueueInv(s, n, {}), s.ready # <<>>,
           DeadlinesExact(s.inFlight, s.leaseDeadlines, n)
    PROVE  LET r == Grant(s, until, n) IN
           /\ Head(s.ready) \in DOMAIN s.states
           /\ Delivered(r, s, Head(s.ready), n, until)
           /\ DeadlinesExact(r.inFlight, r.leaseDeadlines, n + 1)
<1>. DEFINE e == Head(s.ready)
            fl2 == GrantedLease(s.states, s.inFlight, e, until, n)
            dl2 == s.leaseDeadlines \cup {<<until, n>>}
<1>0. /\ QueueOK(s) /\ StatesOK(s.states) /\ FlightsOK(s.inFlight)
      /\ LeasesExact(s.states, s.inFlight, s.leaseDeadlines)
      /\ s.ready \in Seq(Envelopes) /\ s.leaseDeadlines \subseteq Nat \X LeaseIds
      /\ DOMAIN s.inFlight \subseteq 1..(n - 1) /\ n \in Nat
  BY MaxLeasesNat, SMT DEF QueueInv, QueueOK, LeaseIds
<1>1. e = s.ready[1] /\ 1 \in DOMAIN s.ready
  BY <1>0, SMT
<1>2. e \in DOMAIN s.states
  BY <1>1 DEF QueueInv, ReadyExact
<1>3. n \notin DOMAIN s.inFlight
  BY <1>0, SMT
<1>4. PICK r : r = Grant(s, until, n)
  OBVIOUS
<1>5. r.states = GrantedState(s.states, e, n) /\ r.inFlight = fl2 /\ r.leaseDeadlines = dl2
  BY <1>0, <1>4 DEF Grant, QueueOK
<1>6. DeadlinesExact(fl2, dl2, n + 1)
  <2>1. /\ DOMAIN fl2 = DOMAIN s.inFlight \cup {n}
        /\ fl2[n].deadline_ms = until
        /\ \A k \in DOMAIN s.inFlight : k # n => fl2[k] = s.inFlight[k]
    BY DEF GrantedLease
  <2>. HIDE DEF fl2
  <2>2. ASSUME NEW d \in dl2
        PROVE  d[2] < n + 1 /\ (d[2] \in DOMAIN fl2 => fl2[d[2]].deadline_ms = d[1])
    <3>1. CASE d \in s.leaseDeadlines
      <4>1. d[2] \in Int /\ d[2] < n /\ (d[2] \in DOMAIN s.inFlight => s.inFlight[d[2]].deadline_ms = d[1])
        BY <1>0, <3>1, MaxLeasesNat, SMT DEF DeadlinesExact, LeaseIds
      <4>. QED BY <1>0, <2>1, <4>1, SMT
    <3>2. CASE d = <<until, n>>
      BY <1>0, <2>1, <3>2, SMT
    <3>. QED BY <3>1, <3>2
  <2>. QED BY <2>2 DEF DeadlinesExact
<1>. DEFINE st == s.states
            fl == s.inFlight
            st2 == GrantedState(st, e, n)
<1>7. DOMAIN st \subseteq Envelopes /\ n # NoLease
  BY <1>0, LeaseIdsNotNone DEF StatesOK
<1>8. /\ DOMAIN st2 = DOMAIN st
      /\ \A f \in DOMAIN st \ {e} : st2[f] = st[f]
      /\ st2[e].available_at_ms = st[e].available_at_ms
      /\ st2[e].active_lease_id = n
      /\ st2[e].next_attempt = st[e].next_attempt + 1
  BY <1>0, <1>2 DEF GrantedState, StatesOK
<1>9. fl2[n].deadline_ms = until /\ \A k \in DOMAIN fl : fl2[k] = fl[k]
  BY <1>3 DEF GrantedLease
<1>10. \A f \in DOMAIN st : Leased(st, f) => st[f].active_lease_id \in DOMAIN fl
  BY <1>0 DEF LeasesExact, UnderLease
<1>. HIDE DEF st2, fl2, dl2, e
<1>11. r.states = st2
  BY <1>5 DEF st2
<1>. HIDE DEF st, fl
<1>12. DueOf(st2) = DueOf(st)
  BY <1>2, <1>7, <1>8 DEF DueOf, st
<1>13. LeaseOf(st2) = [LeaseOf(st) EXCEPT ![e] = n]
  BY <1>2, <1>7, <1>8 DEF LeaseOf, st
<1>14. AttemptOf(st2) = [AttemptOf(st) EXCEPT ![e] = @ + 1]
  BY <1>2, <1>7, <1>8 DEF AttemptOf, st
<1>15. DeadlineOf(st2, fl2) = [DeadlineOf(st, fl) EXCEPT ![e] = until]
  BY <1>2, <1>7, <1>8, <1>9, <1>10 DEF DeadlineOf, Leased, st
<1>16. Delivered(r, s, e, n, until)
  BY <1>5, <1>8, <1>11, <1>12, <1>13, <1>14, <1>15 DEF Delivered, st, fl
<1>. QED BY <1>2, <1>4, <1>5, <1>6, <1>16 DEF e

\* r is s with e due at the given time.
DueAt(r, s, e, at) ==
    /\ DOMAIN r.states = DOMAIN s.states
    /\ DueOf(r.states) = [DueOf(s.states) EXCEPT ![e] = at]
    /\ LeaseOf(r.states) = LeaseOf(s.states)
    /\ DeadlineOf(r.states, r.inFlight) = DeadlineOf(s.states, s.inFlight)
    /\ AttemptOf(r.states) = AttemptOf(s.states)
    /\ r.inFlight = s.inFlight
    /\ r.leaseDeadlines = s.leaseDeadlines

\* Making an envelope available changes its due time.
LEMMA MakeAvailableView ==
    ASSUME NEW s, QueueOK(s), NEW e \in DOMAIN s.states, NEW at \in Nat, NEW t
    PROVE  DueAt(MakeAvailable(s, e, at, t), s, e, at)
<1>. DEFINE st2 == WithAvailableAt(s.states, e, at)
<1>0. StatesOK(s.states) /\ DOMAIN s.states \subseteq Envelopes
  BY DEF QueueOK, StatesOK
<1>1. /\ DOMAIN st2 = DOMAIN s.states
      /\ \A f \in DOMAIN s.states \ {e} : st2[f] = s.states[f]
      /\ st2[e].available_at_ms = at
      /\ st2[e].active_lease_id = s.states[e].active_lease_id
      /\ st2[e].next_attempt = s.states[e].next_attempt
      /\ StatesOK(st2)
  BY <1>0 DEF WithAvailableAt, StatesOK, EnvelopeState
<1>. HIDE DEF st2
<1>2. PICK p : p = [s EXCEPT !.states = st2]
  OBVIOUS
<1>3. /\ p.states = st2 /\ p.inFlight = s.inFlight /\ p.leaseDeadlines = s.leaseDeadlines
      /\ QueueOK(p)
  BY <1>1, <1>2 DEF QueueOK
<1>4. PICK r : r = MakeAvailable(s, e, at, t)
  OBVIOUS
<1>5. r = IF at <= t THEN push_ready(p, <<e>>) ELSE push_delayed(p, {e})
  BY <1>2, <1>4 DEF MakeAvailable, st2
<1>6. SameView(r, p) /\ r.inFlight = p.inFlight /\ r.leaseDeadlines = p.leaseDeadlines
  <2>1. CASE at <= t
    BY <1>3, <1>5, <2>1, PushReadyView
  <2>2. CASE ~(at <= t)
    <3>1. r.states = p.states /\ r.inFlight = p.inFlight /\ r.leaseDeadlines = p.leaseDeadlines
      BY <1>3, <1>5, <2>2 DEF push_delayed, QueueOK
    <3>. QED BY <3>1 DEF SameView
  <2>. QED BY <2>1, <2>2
<1>7. /\ DueOf(st2) = [DueOf(s.states) EXCEPT ![e] = at]
      /\ LeaseOf(st2) = LeaseOf(s.states)
      /\ AttemptOf(st2) = AttemptOf(s.states)
  BY <1>0, <1>1 DEF DueOf, LeaseOf, AttemptOf
<1>8. DeadlineOf(st2, s.inFlight) = DeadlineOf(s.states, s.inFlight)
  BY <1>0, <1>1 DEF DeadlineOf, Leased
<1>. QED BY <1>1, <1>3, <1>4, <1>6, <1>7, <1>8 DEF SameView, DueAt

\* r is s with the new envelope e, due at the given time and never delivered.
Inserted(r, s, e, at) ==
    /\ DOMAIN r.states = DOMAIN s.states \cup {e}
    /\ DueOf(r.states) = [DueOf(s.states) EXCEPT ![e] = at]
    /\ LeaseOf(r.states) = LeaseOf(s.states)
    /\ DeadlineOf(r.states, r.inFlight) = DeadlineOf(s.states, s.inFlight)
    /\ AttemptOf(r.states) = [AttemptOf(s.states) EXCEPT ![e] = 0]
    /\ r.inFlight = s.inFlight
    /\ r.leaseDeadlines = s.leaseDeadlines

LEMMA InsertView ==
    ASSUME NEW s, QueueOK(s), NEW e \in Envelopes, e \notin DOMAIN s.states,
           NEW at \in Nat, NEW t
    PROVE  Inserted(Insert(s, e, at, t), s, e, at)
<1>. DEFINE st2 == WithNew(s.states, e)
<1>0. StatesOK(s.states) /\ DOMAIN s.states \subseteq Envelopes
  BY DEF QueueOK, StatesOK
<1>1. /\ DOMAIN st2 = DOMAIN s.states \cup {e}
      /\ \A f \in DOMAIN s.states : st2[f] = s.states[f]
      /\ st2[e].available_at_ms = 0
      /\ st2[e].active_lease_id = NoLease
      /\ st2[e].next_attempt = 0
      /\ StatesOK(st2)
  BY <1>0 DEF WithNew, NewState, StatesOK, EnvelopeState
<1>. HIDE DEF st2
<1>2. PICK p : p = [s EXCEPT !.states = st2]
  OBVIOUS
<1>3. /\ p.states = st2 /\ p.inFlight = s.inFlight /\ p.leaseDeadlines = s.leaseDeadlines
      /\ QueueOK(p)
  BY <1>1, <1>2 DEF QueueOK
<1>4. PICK r : r = Insert(s, e, at, t)
  OBVIOUS
<1>5. DueAt(r, p, e, at)
  BY <1>1, <1>2, <1>3, <1>4, MakeAvailableView DEF Insert, st2
<1>6. /\ LeaseOf(st2) = LeaseOf(s.states)
      /\ AttemptOf(st2) = [AttemptOf(s.states) EXCEPT ![e] = 0]
  BY <1>0, <1>1 DEF LeaseOf, AttemptOf
<1>8. DueOf(r.states) = [DueOf(s.states) EXCEPT ![e] = at]
  <2>1. DueOf(r.states) = [DueOf(st2) EXCEPT ![e] = at]
    BY <1>3, <1>5 DEF DueAt
  <2>2. DueOf(st2) = [DueOf(s.states) EXCEPT ![e] = 0]
    BY <1>0, <1>1 DEF DueOf
  <2>3. DOMAIN DueOf(s.states) = Envelopes
    BY DEF DueOf
  <2>. QED BY <2>1, <2>2, <2>3
<1>7. DeadlineOf(st2, s.inFlight) = DeadlineOf(s.states, s.inFlight)
  BY <1>0, <1>1 DEF DeadlineOf, Leased
<1>. QED BY <1>1, <1>3, <1>4, <1>5, <1>6, <1>7, <1>8 DEF DueAt, Inserted

\* No envelope outside A is delivered under the settled lease l.
LEMMA OthersKeepLeases ==
    ASSUME NEW st, NEW fl, FlightsOK(fl), NEW dl, LeasesExact(st, fl, dl), NEW l,
           NEW e \in DOMAIN st \ ActiveEnvelopes(st, fl, l), Leased(st, e)
    PROVE  DropLeases(fl, {l})[st[e].active_lease_id] = fl[st[e].active_lease_id]
<1>1. UnderLease(st, fl, dl, e)
  BY DEF LeasesExact
<1>2. st[e].active_lease_id \in DOMAIN fl \ {l}
  BY <1>1 DEF UnderLease, ActiveEnvelopes
<1>. QED BY <1>2 DEF DropLeases

\* r is s without the envelopes of A.
Forgotten(r, s, A) ==
    /\ DOMAIN r.states = DOMAIN s.states \ A
    /\ DueOf(r.states) = [e \in Envelopes |-> IF e \in A THEN 0 ELSE DueOf(s.states)[e]]
    /\ LeaseOf(r.states) = [e \in Envelopes |-> IF e \in A THEN NoLease ELSE LeaseOf(s.states)[e]]
    /\ DeadlineOf(r.states, r.inFlight) =
           [e \in Envelopes |-> IF e \in A THEN 0 ELSE DeadlineOf(s.states, s.inFlight)[e]]
    /\ AttemptOf(r.states) = [e \in Envelopes |-> IF e \in A THEN 0 ELSE AttemptOf(s.states)[e]]

LEMMA SettleView ==
    ASSUME NEW s, NEW n, QueueInv(s, n, {}), DeadlinesExact(s.inFlight, s.leaseDeadlines, n), NEW l
    PROVE  LET r == Settle(s, l) IN
           /\ Forgotten(r, s, ActiveEnvelopes(s.states, s.inFlight, l))
           /\ DeadlinesExact(r.inFlight, r.leaseDeadlines, n)
<1>. DEFINE A == ActiveEnvelopes(s.states, s.inFlight, l)
            st == s.states
            fl == s.inFlight
            st2 == Without(st, A)
            fl2 == DropLeases(fl, {l})
<1>0. /\ QueueOK(s) /\ StatesOK(st) /\ FlightsOK(fl) /\ DOMAIN st \subseteq Envelopes
      /\ LeasesExact(st, fl, s.leaseDeadlines)
  BY DEF QueueInv, QueueOK, StatesOK
<1>1. PICK r : r = Settle(s, l)
  OBVIOUS
<1>2. r.states = st2 /\ r.inFlight = fl2 /\ r.leaseDeadlines = s.leaseDeadlines
  BY <1>0, <1>1 DEF Settle, QueueOK
<1>3. DOMAIN st2 = DOMAIN st \ A /\ \A e \in DOMAIN st \ A : st2[e] = st[e]
  BY DEF Without
<1>4. DOMAIN fl2 = DOMAIN fl \ {l} /\ \A k \in DOMAIN fl \ {l} : fl2[k] = fl[k]
  BY <1>0, DropLeasesFields
<1>5. \A e \in DOMAIN st \ A :
        Leased(st, e) => fl2[st[e].active_lease_id] = fl[st[e].active_lease_id]
  BY <1>0, OthersKeepLeases, SMT
<1>6. DeadlinesExact(fl2, s.leaseDeadlines, n)
  BY <1>4 DEF DeadlinesExact
<1>. HIDE DEF A, st2, fl2
<1>7. Forgotten(r, s, A)
  <2>1. /\ DueOf(st2) = [e \in Envelopes |-> IF e \in A THEN 0 ELSE DueOf(st)[e]]
        /\ LeaseOf(st2) = [e \in Envelopes |-> IF e \in A THEN NoLease ELSE LeaseOf(st)[e]]
        /\ AttemptOf(st2) = [e \in Envelopes |-> IF e \in A THEN 0 ELSE AttemptOf(st)[e]]
    BY <1>0, <1>3 DEF DueOf, LeaseOf, AttemptOf
  <2>2. DeadlineOf(st2, fl2) = [e \in Envelopes |-> IF e \in A THEN 0 ELSE DeadlineOf(st, fl)[e]]
    BY <1>0, <1>3, <1>5 DEF DeadlineOf, Leased
  <2>. QED BY <1>2, <1>3, <2>1, <2>2 DEF Forgotten
<1>. QED BY <1>1, <1>2, <1>6, <1>7 DEF A

LEMMA UnleaseView ==
    ASSUME NEW s, NEW n, QueueInv(s, n, {}), DeadlinesExact(s.inFlight, s.leaseDeadlines, n),
           NEW l, NEW t \in Nat
    PROVE  LET r == Unlease(s, l, t) IN
           /\ TakenBack(r, s, ActiveEnvelopes(s.states, s.inFlight, l), t)
           /\ DeadlinesExact(r.inFlight, r.leaseDeadlines, n)
<1>. DEFINE A == ActiveEnvelopes(s.states, s.inFlight, l)
            st == s.states
            fl == s.inFlight
            st2 == Released(st, A, t)
            fl2 == DropLeases(fl, {l})
<1>0. /\ QueueOK(s) /\ StatesOK(st) /\ FlightsOK(fl) /\ DOMAIN st \subseteq Envelopes
      /\ LeasesExact(st, fl, s.leaseDeadlines)
  BY DEF QueueInv, QueueOK, StatesOK
<1>1. PICK r : r = Unlease(s, l, t)
  OBVIOUS
<1>2. r.states = st2 /\ r.inFlight = fl2 /\ r.leaseDeadlines = s.leaseDeadlines
  BY <1>0, <1>1 DEF Unlease, QueueOK
<1>3. /\ DOMAIN st2 = DOMAIN st
      /\ \A e \in DOMAIN st :
           /\ st2[e].active_lease_id = IF e \in A THEN NoLease ELSE st[e].active_lease_id
           /\ st2[e].available_at_ms = IF e \in A THEN t ELSE st[e].available_at_ms
  <2>. HIDE DEF A
  <2>. QED BY <1>0, ReleasedFields, SMT
<1>4. \A e \in DOMAIN st : st2[e].next_attempt = st[e].next_attempt
  <2>. HIDE DEF A
  <2>. QED BY <1>0, ReleasedAttempts, SMT
<1>5. DOMAIN fl2 = DOMAIN fl \ {l} /\ \A k \in DOMAIN fl \ {l} : fl2[k] = fl[k]
  BY <1>0, DropLeasesFields
<1>6. \A e \in DOMAIN st \ A :
        Leased(st, e) => fl2[st[e].active_lease_id] = fl[st[e].active_lease_id]
  BY <1>0, OthersKeepLeases, SMT
<1>7. DeadlinesExact(fl2, s.leaseDeadlines, n)
  BY <1>5 DEF DeadlinesExact
<1>8. A \subseteq DOMAIN st
  BY DEF ActiveEnvelopes
<1>. HIDE DEF A, st2, fl2
<1>9. TakenBack(r, s, A, t)
  <2>1. /\ DueOf(st2) = [e \in Envelopes |-> IF e \in A THEN t ELSE DueOf(st)[e]]
        /\ LeaseOf(st2) = [e \in Envelopes |-> IF e \in A THEN NoLease ELSE LeaseOf(st)[e]]
        /\ AttemptOf(st2) = AttemptOf(st)
    BY <1>0, <1>3, <1>4, <1>8 DEF DueOf, LeaseOf, AttemptOf
  <2>2. DeadlineOf(st2, fl2) = [e \in Envelopes |-> IF e \in A THEN 0 ELSE DeadlineOf(st, fl)[e]]
    BY <1>0, <1>3, <1>6, <1>8 DEF DeadlineOf, Leased
  <2>. QED BY <1>2, <1>3, <2>1, <2>2 DEF TakenBack
<1>. QED BY <1>1, <1>2, <1>7, <1>9 DEF A

----------------------------------------------------------------------------
(* Every operation takes a step of the contract.                             *)

\* What the operations start from: s is q with the overdue leases of X taken back.
LEMMA AfterExpiry ==
    ASSUME NEW s, NEW X, TakenBack(s, q, X, now)
    PROVE  /\ Contract!LeaseAfter(X) = LeaseOf(s.states)
           /\ Contract!DueAfter(X) = DueOf(s.states)
           /\ Contract!DeadlineAfter(X) = DeadlineOf(s.states, s.inFlight)
           /\ DOMAIN s.states = DOMAIN q.states
           /\ AttemptOf(s.states) = AttemptOf(q.states)
BY DEF TakenBack, Contract!LeaseAfter, Contract!DueAfter, Contract!DeadlineAfter

LEMMA TakeBackStep ==
    ASSUME NEW X, TakenBack(q', q, X, now), UNCHANGED <<now, settled>>, X \in SUBSET Contract!Overdue
    PROVE  Contract!ContractNext
<1>1. Contract!TakeBack(X)
  BY AfterExpiry DEF Contract!TakeBack, TakenBack
<1>. QED BY <1>1 DEF Contract!ContractNext

LEMMA OverdueX ==
    ASSUME NEW X \in SUBSET DOMAIN q.states,
           \A e \in X : /\ LeaseOf(q.states)[e] # NoLease
                        /\ DeadlineOf(q.states, q.inFlight)[e] <= now
    PROVE  X \in SUBSET Contract!Overdue
BY DEF Contract!Overdue

\* What the refinement keeps from step to step.
KeepsDeadlines == DeadlinesExact(q'.inFlight, q'.leaseDeadlines, nextLease')

\* The facts of the invariant the steps use.
LEMMA RefinementFacts ==
    ASSUME RefinementInv
    PROVE  /\ QueueInv(q, nextLease, {}) /\ QueueOK(q) /\ StatesOK(q.states)
           /\ DOMAIN q.states \subseteq Envelopes
           /\ DeadlinesExact(q.inFlight, q.leaseDeadlines, nextLease)
           /\ nextLease \in Nat /\ now \in Nat /\ nextLease \in 1..(MaxLeases + 1)
BY TimesAreNat, MaxLeasesNat, SMT DEF RefinementInv, IInv, TypeOK, Clock, QueueInv, QueueOK, StatesOK

LEMMA EnqueueStep ==
    ASSUME RefinementInv, NEW e \in Envelopes, NEW at \in Clock, enqueue(e, at)
    PROVE  Contract!ContractNext /\ KeepsDeadlines
<1>0. /\ QueueInv(q, nextLease, {}) /\ nextLease \in Nat /\ now \in Nat /\ at \in Nat
      /\ DeadlinesExact(q.inFlight, q.leaseDeadlines, nextLease)
  BY RefinementFacts, TimesAreNat, SMT DEF Clock
<1>1. PICK s \in Refreshed(q, now) : q' = IF e \in DOMAIN s.states THEN s ELSE Insert(s, e, at, now)
  BY DEF enqueue
<1>2. UNCHANGED <<now, settled, nextLease>>
  BY DEF enqueue
<1>3. PICK X \in SUBSET DOMAIN q.states :
        /\ \A f \in X : /\ LeaseOf(q.states)[f] # NoLease
                        /\ DeadlineOf(q.states, q.inFlight)[f] <= now
        /\ TakenBack(s, q, X, now)
        /\ DeadlinesExact(s.inFlight, s.leaseDeadlines, nextLease)
  BY <1>0, RefreshView
<1>4. X \in SUBSET Contract!Overdue
  BY <1>3, OverdueX
<1>5. CASE e \in DOMAIN s.states
  <2>1. q' = s
    BY <1>1, <1>5
  <2>. QED BY <1>2, <1>3, <1>4, <2>1, TakeBackStep DEF KeepsDeadlines
<1>6. CASE e \notin DOMAIN s.states
  <2>1. q' = Insert(s, e, at, now)
    BY <1>1, <1>6
  <2>2. QueueOK(s)
    BY <1>0, RefreshInv DEF QueueInv
  <2>3. Inserted(q', s, e, at)
    BY <1>0, <1>6, <2>1, <2>2, InsertView
  <2>4. Contract!Enqueue(e, at, X)
    BY <1>2, <1>3, <1>6, <2>3, AfterExpiry DEF Contract!Enqueue, Inserted
  <2>5. Contract!ContractNext
    BY <1>4, <2>4 DEF Contract!ContractNext
  <2>. QED BY <1>2, <1>3, <2>3, <2>5 DEF Inserted, KeepsDeadlines
<1>. QED BY <1>5, <1>6

LEMMA AckStep ==
    ASSUME RefinementInv, NEW l \in 1..(nextLease - 1), ack(l)
    PROVE  Contract!ContractNext /\ KeepsDeadlines
<1>0. /\ QueueInv(q, nextLease, {}) /\ nextLease \in Nat /\ now \in Nat
      /\ DeadlinesExact(q.inFlight, q.leaseDeadlines, nextLease)
      /\ DOMAIN q.states \subseteq Envelopes /\ l \in LeaseIds
  BY RefinementFacts, MaxLeasesNat, SMT DEF LeaseIds
<1>1. PICK s \in Expiries(q, now) : q' = Settle(s, l)
  BY DEF ack
<1>2. UNCHANGED <<now, nextLease>> /\ settled' = settled \cup {l}
  BY DEF ack
<1>3. PICK X \in SUBSET DOMAIN q.states :
        /\ \A f \in X : /\ LeaseOf(q.states)[f] # NoLease
                        /\ DeadlineOf(q.states, q.inFlight)[f] <= now
        /\ TakenBack(s, q, X, now)
        /\ DeadlinesExact(s.inFlight, s.leaseDeadlines, nextLease)
  BY <1>0, ExpireView
<1>4. X \in SUBSET Contract!Overdue
  BY <1>3, OverdueX
<1>5. QueueInv(s, nextLease, {})
  BY <1>0, ExpireInv
<1>. DEFINE A == ActiveEnvelopes(s.states, s.inFlight, l)
<1>6. Forgotten(q', s, A) /\ DeadlinesExact(q'.inFlight, q'.leaseDeadlines, nextLease)
  BY <1>1, <1>3, <1>5, SettleView
<1>7. KeepsDeadlines
  BY <1>2, <1>6 DEF KeepsDeadlines
<1>8. /\ DOMAIN s.states = DOMAIN q.states
      /\ \A e \in A : e \in DOMAIN s.states /\ LeaseOf(s.states)[e] = l /\ l # NoLease
      /\ \A e \in DOMAIN s.states : LeaseOf(s.states)[e] = l => e \in A
  <2>1. DOMAIN s.states = DOMAIN q.states
    BY <1>3 DEF TakenBack
  <2>2. \A e \in A : e \in DOMAIN s.states /\ s.states[e].active_lease_id = l
    BY DEF ActiveEnvelopes
  <2>3. \A e \in DOMAIN s.states : s.states[e].active_lease_id = l => e \in A
    BY <1>0, <1>5, LeaseIdsNotNone DEF QueueInv, LeasesExact, Leased, UnderLease, ActiveEnvelopes
  <2>4. \A e \in DOMAIN s.states : LeaseOf(s.states)[e] = s.states[e].active_lease_id
    BY <1>0, <2>1 DEF LeaseOf
  <2>. QED BY <1>0, <2>1, <2>2, <2>3, <2>4, LeaseIdsNotNone
<1>. HIDE DEF A
<1>9. CASE A = {}
  <2>1. SameView(q', s)
    BY <1>6, <1>9 DEF Forgotten, SameView, DueOf, LeaseOf, DeadlineOf, AttemptOf
  <2>2. TakenBack(q', q, X, now)
    BY <1>3, <2>1 DEF TakenBack, SameView
  <2>3. Contract!TakeBack(X)
    BY <1>2, <2>2, AfterExpiry DEF Contract!TakeBack, TakenBack
  <2>4. \A e \in DOMAIN q.states : Contract!LeaseAfter(X)[e] # l
    BY <1>3, <1>8, <1>9, AfterExpiry
  <2>5. Contract!Ignore(l, X)
    BY <1>2, <2>3, <2>4 DEF Contract!Ignore
  <2>6. Contract!ContractNext
    BY <1>0, <1>4, <2>5 DEF Contract!ContractNext
  <2>. QED BY <1>7, <2>6
<1>10. CASE A # {}
  <2>1. PICK e \in A : TRUE
    BY <1>10
  <2>2. e \in Envelopes /\ e \in DOMAIN q.states
    BY <1>0, <1>8
  \* Two envelopes are never delivered under the same lease.
  <2>3. A = {e}
    BY DEF A, ActiveEnvelopes
  <2>4. LeaseOf(s.states)[e] = l /\ l # NoLease
    BY <1>8
  <2>5. LeaseOf(q.states)[e] = l
    <3>1. LeaseOf(s.states)[e] = IF e \in X THEN NoLease ELSE LeaseOf(q.states)[e]
      BY <1>3, <2>2 DEF TakenBack
    <3>. QED BY <2>4, <3>1
  <2>6. /\ DOMAIN q'.states = DOMAIN q.states \ {e}
        /\ DueOf(q'.states) = [DueOf(s.states) EXCEPT ![e] = 0]
        /\ LeaseOf(q'.states) = [LeaseOf(s.states) EXCEPT ![e] = NoLease]
        /\ DeadlineOf(q'.states, q'.inFlight) = [DeadlineOf(s.states, s.inFlight) EXCEPT ![e] = 0]
        /\ AttemptOf(q'.states) = [AttemptOf(s.states) EXCEPT ![e] = 0]
    <3>1. /\ DOMAIN DueOf(s.states) = Envelopes /\ DOMAIN LeaseOf(s.states) = Envelopes
          /\ DOMAIN DeadlineOf(s.states, s.inFlight) = Envelopes /\ DOMAIN AttemptOf(s.states) = Envelopes
      BY DEF DueOf, LeaseOf, DeadlineOf, AttemptOf
    <3>. QED BY <1>6, <1>8, <2>2, <2>3, <3>1 DEF Forgotten
  <2>7. Contract!Ack(e, X)
    BY <1>2, <1>3, <2>2, <2>4, <2>5, <2>6, AfterExpiry DEF Contract!Ack
  <2>8. Contract!ContractNext
    BY <1>4, <2>2, <2>7 DEF Contract!ContractNext
  <2>. QED BY <1>7, <2>8
<1>. QED BY <1>9, <1>10

LEMMA NackStep ==
    ASSUME RefinementInv, NEW l \in 1..(nextLease - 1), NEW delay \in Delays, nack(l, delay)
    PROVE  Contract!ContractNext /\ KeepsDeadlines
<1>0. /\ QueueInv(q, nextLease, {}) /\ nextLease \in Nat /\ now \in Nat
      /\ DeadlinesExact(q.inFlight, q.leaseDeadlines, nextLease)
      /\ DOMAIN q.states \subseteq Envelopes /\ l \in LeaseIds /\ now + delay \in Nat
  BY RefinementFacts, MaxLeasesNat, TimesAreNat, SMT DEF LeaseIds
<1>1. PICK s \in Refreshed(q, now) :
        \/ /\ ActiveEnvelopes(s.states, s.inFlight, l) = {}
           /\ q' = Unlease(s, l, now)
        \/ \E e \in ActiveEnvelopes(s.states, s.inFlight, l) :
             q' = MakeAvailable(Unlease(s, l, now), e, now + delay, now)
  BY DEF nack
<1>2. UNCHANGED <<now, nextLease>> /\ settled' = settled \cup {l}
  BY DEF nack
<1>3. PICK X \in SUBSET DOMAIN q.states :
        /\ \A f \in X : /\ LeaseOf(q.states)[f] # NoLease
                        /\ DeadlineOf(q.states, q.inFlight)[f] <= now
        /\ TakenBack(s, q, X, now)
        /\ DeadlinesExact(s.inFlight, s.leaseDeadlines, nextLease)
  BY <1>0, RefreshView
<1>4. X \in SUBSET Contract!Overdue
  BY <1>3, OverdueX
<1>5. QueueInv(s, nextLease, {})
  BY <1>0, RefreshInv
<1>. DEFINE A == ActiveEnvelopes(s.states, s.inFlight, l)
<1>6. PICK u : u = Unlease(s, l, now)
  OBVIOUS
<1>7. TakenBack(u, s, A, now) /\ DeadlinesExact(u.inFlight, u.leaseDeadlines, nextLease)
  BY <1>0, <1>3, <1>5, <1>6, UnleaseView
<1>8. /\ DOMAIN s.states = DOMAIN q.states
      /\ \A e \in A : e \in DOMAIN s.states /\ LeaseOf(s.states)[e] = l /\ l # NoLease
      /\ \A e \in DOMAIN s.states : LeaseOf(s.states)[e] = l => e \in A
  <2>1. DOMAIN s.states = DOMAIN q.states
    BY <1>3 DEF TakenBack
  <2>2. \A e \in A : e \in DOMAIN s.states /\ s.states[e].active_lease_id = l
    BY DEF ActiveEnvelopes
  <2>3. \A e \in DOMAIN s.states : s.states[e].active_lease_id = l => e \in A
    BY <1>0, <1>5, LeaseIdsNotNone DEF QueueInv, LeasesExact, Leased, UnderLease, ActiveEnvelopes
  <2>4. \A e \in DOMAIN s.states : LeaseOf(s.states)[e] = s.states[e].active_lease_id
    BY <1>0, <2>1 DEF LeaseOf
  <2>. QED BY <1>0, <2>1, <2>2, <2>3, <2>4, LeaseIdsNotNone
<1>9. A = {} \/ \E e \in A : A = {e}
  BY DEF ActiveEnvelopes
<1>10. QueueOK(u)
  BY <1>0, <1>5, <1>6, UnleaseInv DEF QueueInv
<1>. HIDE DEF A
<1>11. CASE A = {}
  <2>1. q' = u
    BY <1>1, <1>6, <1>11 DEF A
  <2>2. SameView(u, s)
    BY <1>7, <1>11 DEF TakenBack, SameView, DueOf, LeaseOf, DeadlineOf
  <2>3. TakenBack(q', q, X, now)
    BY <1>3, <2>1, <2>2 DEF TakenBack, SameView
  <2>4. Contract!TakeBack(X)
    BY <1>2, <2>3, AfterExpiry DEF Contract!TakeBack, TakenBack
  <2>5. \A e \in DOMAIN q.states : Contract!LeaseAfter(X)[e] # l
    BY <1>3, <1>8, <1>11, AfterExpiry
  <2>6. Contract!Ignore(l, X)
    BY <1>2, <2>4, <2>5 DEF Contract!Ignore
  <2>7. Contract!ContractNext
    BY <1>0, <1>4, <2>6 DEF Contract!ContractNext
  <2>. QED BY <1>2, <1>7, <2>1, <2>7 DEF KeepsDeadlines
<1>12. CASE A # {}
  <2>1. PICK e \in A : q' = MakeAvailable(u, e, now + delay, now)
    BY <1>1, <1>6, <1>12 DEF A
  <2>2. e \in Envelopes /\ e \in DOMAIN q.states /\ DOMAIN u.states = DOMAIN q.states
    BY <1>0, <1>7, <1>8 DEF TakenBack
  <2>3. A = {e}
    BY <1>9
  <2>4. LeaseOf(s.states)[e] = l /\ l # NoLease
    BY <1>8
  <2>5. LeaseOf(q.states)[e] = l
    <3>1. LeaseOf(s.states)[e] = IF e \in X THEN NoLease ELSE LeaseOf(q.states)[e]
      BY <1>3, <2>2 DEF TakenBack
    <3>. QED BY <2>4, <3>1
  <2>6. DueAt(q', u, e, now + delay)
    BY <1>0, <1>10, <2>1, <2>2, MakeAvailableView
  <2>7. /\ DOMAIN DueOf(s.states) = Envelopes /\ DOMAIN LeaseOf(s.states) = Envelopes
        /\ DOMAIN DeadlineOf(s.states, s.inFlight) = Envelopes
    BY DEF DueOf, LeaseOf, DeadlineOf
  <2>8. /\ DueOf(u.states) = [DueOf(s.states) EXCEPT ![e] = now]
        /\ LeaseOf(u.states) = [LeaseOf(s.states) EXCEPT ![e] = NoLease]
        /\ DeadlineOf(u.states, u.inFlight) = [DeadlineOf(s.states, s.inFlight) EXCEPT ![e] = 0]
        /\ AttemptOf(u.states) = AttemptOf(s.states)
    BY <1>7, <2>2, <2>3, <2>7 DEF TakenBack
  <2>9. /\ DOMAIN q'.states = DOMAIN q.states
        /\ LeaseOf(q'.states) = [LeaseOf(s.states) EXCEPT ![e] = NoLease]
        /\ DeadlineOf(q'.states, q'.inFlight) = [DeadlineOf(s.states, s.inFlight) EXCEPT ![e] = 0]
        /\ AttemptOf(q'.states) = AttemptOf(s.states)
    BY <2>2, <2>6, <2>8 DEF DueAt
  <2>10. DueOf(q'.states) = [DueOf(s.states) EXCEPT ![e] = now + delay]
    <3>1. DueOf(q'.states) = [DueOf(u.states) EXCEPT ![e] = now + delay]
      BY <2>6 DEF DueAt
    <3>. QED BY <2>7, <2>8, <3>1
  <2>11. Contract!Nack(e, delay, X)
    BY <1>2, <1>3, <2>2, <2>4, <2>5, <2>9, <2>10, AfterExpiry DEF Contract!Nack
  <2>12. Contract!ContractNext
    BY <1>4, <2>2, <2>11 DEF Contract!ContractNext
  <2>13. KeepsDeadlines
    BY <1>2, <1>7, <2>6 DEF KeepsDeadlines, DueAt
  <2>. QED BY <2>12, <2>13
<1>. QED BY <1>11, <1>12

LEMMA TryDequeueStep ==
    ASSUME RefinementInv, NEW c \in Consumers, NEW timeout \in Timeouts, NEW wait \in BOOLEAN,
           TryDequeue(c, timeout, wait), UNCHANGED <<now, settled>>
    PROVE  Contract!ContractNext /\ KeepsDeadlines
<1>0. /\ QueueInv(q, nextLease, {}) /\ nextLease \in Nat /\ now \in Nat /\ now + timeout \in Nat
      /\ DeadlinesExact(q.inFlight, q.leaseDeadlines, nextLease)
      /\ DOMAIN q.states \subseteq Envelopes
  BY RefinementFacts, TimesAreNat, SMT
<1>1. PICK s \in Refreshed(q, now) :
        \/ \E n \in 0..(Len(s.ready) - 1) :
            /\ nextLease \in LeaseIds
            /\ Deliverable(s.states, now, s.ready[n + 1])
            /\ q' = Grant(SkipReady(s, n), now + timeout, nextLease)
            /\ nextLease' = nextLease + 1
        \/ /\ q' = [SkipReady(s, Len(s.ready)) EXCEPT
                       !.readyEvent = FALSE,
                       !.waiters = IF wait THEN @ \cup {c} ELSE @]
           /\ UNCHANGED nextLease
  BY DEF TryDequeue
<1>2. PICK X \in SUBSET DOMAIN q.states :
        /\ \A f \in X : /\ LeaseOf(q.states)[f] # NoLease
                        /\ DeadlineOf(q.states, q.inFlight)[f] <= now
        /\ TakenBack(s, q, X, now)
        /\ DeadlinesExact(s.inFlight, s.leaseDeadlines, nextLease)
  BY <1>0, RefreshView
<1>3. X \in SUBSET Contract!Overdue
  BY <1>2, OverdueX
<1>4. QueueInv(s, nextLease, {}) /\ QueueOK(s)
  BY <1>0, RefreshInv DEF QueueInv
<1>5. s.ready \in Seq(Envelopes) /\ Len(s.ready) \in Nat
  BY <1>4, LenProperties DEF QueueInv, QueueOK
<1>6. CASE \E n \in 0..(Len(s.ready) - 1) :
            /\ nextLease \in LeaseIds
            /\ Deliverable(s.states, now, s.ready[n + 1])
            /\ q' = Grant(SkipReady(s, n), now + timeout, nextLease)
            /\ nextLease' = nextLease + 1
  <2>1. PICK n \in 0..(Len(s.ready) - 1) :
            /\ nextLease \in LeaseIds
            /\ Deliverable(s.states, now, s.ready[n + 1])
            /\ q' = Grant(SkipReady(s, n), now + timeout, nextLease)
            /\ nextLease' = nextLease + 1
    BY <1>6
  <2>2. n \in 0..Len(s.ready) /\ Len(s.ready) - n # 0 /\ 1 \in 1..(Len(s.ready) - n)
    BY <1>5, SMT
  <2>3. PICK p : p = SkipReady(s, n)
    OBVIOUS
  <2>4. QueueInv(p, nextLease, {}) /\ p.ready = SubSeq(s.ready, n + 1, Len(s.ready))
    BY <1>0, <1>4, <2>2, <2>3, SkipReadyInv
  <2>5. /\ Len(p.ready) = Len(s.ready) - n /\ p.ready \in Seq(Envelopes)
        /\ p.ready[1] = s.ready[n + 1]
    BY <1>5, <2>2, <2>4, DropFirst
  <2>6. p.ready # <<>> /\ Head(p.ready) = s.ready[n + 1]
    BY <2>2, <2>5, EmptySeq, SMT
  <2>7. SameView(p, s) /\ DeadlinesExact(p.inFlight, p.leaseDeadlines, nextLease)
    BY <1>2, <1>4, <2>3, SkipReadyView
  <2>8. PICK e : e = s.ready[n + 1]
    OBVIOUS
  <2>9. /\ Delivered(q', p, e, nextLease, now + timeout)
        /\ DeadlinesExact(q'.inFlight, q'.leaseDeadlines, nextLease + 1)
    BY <1>0, <2>1, <2>3, <2>4, <2>6, <2>7, <2>8, GrantView
  <2>10. e \in DOMAIN s.states /\ ~Leased(s.states, e) /\ s.states[e].available_at_ms <= now
    BY <2>1, <2>8 DEF Deliverable
  <2>11. DOMAIN s.states = DOMAIN q.states /\ e \in Envelopes
    BY <1>0, <1>2, <2>10 DEF TakenBack
  <2>12. LeaseOf(s.states)[e] = NoLease /\ DueOf(s.states)[e] <= now
    BY <2>10, <2>11 DEF LeaseOf, DueOf, Leased
  \* The new lease is nobody's.
  <2>13. \A f \in Envelopes : LeaseOf(q.states)[f] # nextLease
    <3>1. \A f \in DOMAIN q.states : Leased(q.states, f) => q.states[f].active_lease_id \in 1..(nextLease - 1)
      BY <1>0 DEF QueueInv, LeasesExact, UnderLease
    <3>2. nextLease # NoLease
      BY <2>1, LeaseIdsNotNone
    <3>. QED BY <1>0, <3>1, <3>2, SMT DEF LeaseOf, Leased
  <2>14. Delivered(q', s, e, nextLease, now + timeout)
    BY <2>7, <2>9 DEF Delivered, SameView
  <2>15. Contract!Deliver(e, nextLease, timeout, X)
    BY <1>2, <2>10, <2>11, <2>12, <2>13, <2>14, AfterExpiry DEF Contract!Deliver, Delivered
  <2>16. Contract!ContractNext
    BY <1>3, <2>1, <2>11, <2>15 DEF Contract!ContractNext
  <2>. QED BY <2>1, <2>9, <2>16 DEF KeepsDeadlines
<1>7. CASE /\ q' = [SkipReady(s, Len(s.ready)) EXCEPT
                       !.readyEvent = FALSE,
                       !.waiters = IF wait THEN @ \cup {c} ELSE @]
           /\ UNCHANGED nextLease
  <2>1. PICK p : p = SkipReady(s, Len(s.ready))
    OBVIOUS
  <2>2. SameView(p, s) /\ p.inFlight = s.inFlight /\ p.leaseDeadlines = s.leaseDeadlines
    BY <1>4, <2>1, SkipReadyView
  <2>3. q'.states = p.states /\ q'.inFlight = p.inFlight /\ q'.leaseDeadlines = p.leaseDeadlines
    <3>1. QueueOK(p)
      <4>1. Len(s.ready) \in 0..Len(s.ready)
        BY <1>5, SMT
      <4>. QED BY <1>0, <1>4, <2>1, <4>1, SkipReadyInv DEF QueueInv
    <3>. QED BY <1>7, <2>1, <3>1 DEF QueueOK
  <2>4. TakenBack(q', q, X, now)
    BY <1>2, <2>2, <2>3 DEF TakenBack, SameView
  <2>. QED BY <1>2, <1>3, <1>7, <2>2, <2>3, <2>4, TakeBackStep DEF KeepsDeadlines
<1>. QED BY <1>1, <1>6, <1>7

\* A step that leaves what the contract sees alone.
LEMMA SameViewStep ==
    ASSUME SameView(q', q), UNCHANGED <<now, settled>>
    PROVE  UNCHANGED Contract!contractVars
BY DEF SameView, Contract!contractVars

\* Each step of the queue is a step of the contract or leaves its variables alone.
LEMMA RefinementStep ==
    ASSUME RefinementInv, [Next]_vars
    PROVE  [Contract!ContractNext]_(Contract!contractVars) /\ KeepsDeadlines
<1>0. /\ QueueInv(q, nextLease, {}) /\ nextLease \in Nat /\ now \in Nat /\ QueueOK(q)
      /\ DeadlinesExact(q.inFlight, q.leaseDeadlines, nextLease)
  BY RefinementFacts
<1>1. ASSUME NEW e \in Envelopes, NEW at \in Clock, enqueue(e, at)
      PROVE  Contract!ContractNext /\ KeepsDeadlines
  BY <1>1, EnqueueStep
<1>2. ASSUME NEW c \in Consumers, NEW timeout \in Timeouts, NEW wait \in BOOLEAN,
             dequeue(c, timeout, wait)
      PROVE  Contract!ContractNext /\ KeepsDeadlines
  <2>1. TryDequeue(c, timeout, wait) /\ UNCHANGED <<now, settled>>
    BY <1>2 DEF dequeue
  <2>. QED BY <2>1, TryDequeueStep
<1>3. ASSUME NEW c \in Consumers, NEW timeout \in Timeouts, ResumeDequeue(c, timeout)
      PROVE  Contract!ContractNext /\ KeepsDeadlines
  <2>1. TryDequeue(c, timeout, TRUE) /\ UNCHANGED <<now, settled>>
    BY <1>3 DEF ResumeDequeue
  <2>. QED BY <2>1, TryDequeueStep
<1>4. ASSUME NEW c \in Consumers, LeaveDequeue(c)
      PROVE  UNCHANGED Contract!contractVars /\ KeepsDeadlines
  <2>1. /\ q'.states = q.states /\ q'.inFlight = q.inFlight
        /\ q'.leaseDeadlines = q.leaseDeadlines /\ UNCHANGED <<now, settled, nextLease>>
    BY <1>0, <1>4 DEF LeaveDequeue, QueueOK
  <2>. QED BY <1>0, <2>1, SameViewStep DEF SameView, KeepsDeadlines
<1>5. ASSUME NEW l \in 1..(nextLease - 1), ack(l)
      PROVE  Contract!ContractNext /\ KeepsDeadlines
  BY <1>5, AckStep
<1>6. ASSUME NEW l \in 1..(nextLease - 1), NEW delay \in Delays, nack(l, delay)
      PROVE  Contract!ContractNext /\ KeepsDeadlines
  BY <1>6, NackStep
<1>7. ASSUME aclose
      PROVE  Contract!ContractNext /\ KeepsDeadlines
  <2>1. /\ q'.states = EmptyFunction /\ q'.inFlight = EmptyFunction /\ q'.leaseDeadlines = {}
        /\ UNCHANGED <<now, settled, nextLease>>
    BY <1>7 DEF aclose, EmptyQueue
  <2>2. /\ DOMAIN q'.states = {}
        /\ DueOf(q'.states) = [e \in Envelopes |-> 0]
        /\ LeaseOf(q'.states) = [e \in Envelopes |-> NoLease]
        /\ DeadlineOf(q'.states, q'.inFlight) = [e \in Envelopes |-> 0]
        /\ AttemptOf(q'.states) = [e \in Envelopes |-> 0]
    BY <2>1 DEF EmptyFunction, DueOf, LeaseOf, DeadlineOf, AttemptOf
  <2>3. Contract!Close
    BY <2>1, <2>2 DEF Contract!Close
  <2>. QED BY <2>1, <2>3 DEF Contract!ContractNext, KeepsDeadlines, DeadlinesExact
<1>8. ASSUME delayed_promoter_loop
      PROVE  UNCHANGED Contract!contractVars /\ KeepsDeadlines
  <2>1. q' \in Promotions(q, now) /\ UNCHANGED <<now, settled, nextLease>>
    BY <1>8 DEF delayed_promoter_loop
  <2>2. SameView(q', q) /\ q'.inFlight = q.inFlight /\ q'.leaseDeadlines = q.leaseDeadlines
    BY <1>0, <2>1, PromoteView
  <2>. QED BY <1>0, <2>1, <2>2, SameViewStep DEF KeepsDeadlines
<1>9. ASSUME lease_reaper_loop
      PROVE  Contract!ContractNext /\ KeepsDeadlines
  <2>1. q' \in Expiries(q, now) /\ UNCHANGED <<now, settled, nextLease>>
    BY <1>9 DEF lease_reaper_loop
  <2>2. PICK X \in SUBSET DOMAIN q.states :
          /\ \A f \in X : /\ LeaseOf(q.states)[f] # NoLease
                          /\ DeadlineOf(q.states, q.inFlight)[f] <= now
          /\ TakenBack(q', q, X, now)
          /\ DeadlinesExact(q'.inFlight, q'.leaseDeadlines, nextLease)
    BY <1>0, <2>1, ExpireView
  <2>3. X \in SUBSET Contract!Overdue
    BY <2>2, OverdueX
  <2>. QED BY <2>1, <2>2, <2>3, TakeBackStep DEF KeepsDeadlines
<1>10. ASSUME ClockMoves
       PROVE  Contract!ContractNext /\ KeepsDeadlines
  <2>1. UNCHANGED <<q, settled, nextLease>>
    BY <1>10 DEF ClockMoves
  <2>2. Contract!ClockMoves
    BY <2>1 DEF Contract!ClockMoves
  <2>. QED BY <1>0, <2>1, <2>2 DEF Contract!ContractNext, KeepsDeadlines
<1>11. ASSUME UNCHANGED vars
       PROVE  UNCHANGED Contract!contractVars /\ KeepsDeadlines
  <2>1. UNCHANGED <<q, now, settled, nextLease>>
    BY <1>11 DEF vars
  <2>. QED BY <1>0, <2>1, SameViewStep DEF SameView, KeepsDeadlines
<1>. QED BY <1>1, <1>2, <1>3, <1>4, <1>5, <1>6, <1>7, <1>8, <1>9, <1>10, <1>11 DEF Next

LEMMA RefinementInvHolds == Spec => []RefinementInv
<1>1. Init => RefinementInv
  <2>. SUFFICES ASSUME Init PROVE RefinementInv
    OBVIOUS
  <2>1. q.leaseDeadlines = {}
    BY DEF Init, EmptyQueue
  <2>. QED BY <2>1, InitInv DEF RefinementInv, DeadlinesExact
<1>2. RefinementInv /\ [Next]_vars => RefinementInv'
  <2>. SUFFICES ASSUME RefinementInv, [Next]_vars PROVE RefinementInv'
    OBVIOUS
  <2>1. IInv'
    BY NextInv DEF RefinementInv
  <2>2. KeepsDeadlines
    BY RefinementStep
  <2>. QED BY <2>1, <2>2 DEF RefinementInv, KeepsDeadlines
<1>. QED BY <1>1, <1>2, PTL DEF Spec

\* Every behaviour of the in-memory queue, with any number of envelopes, consumers and
\* leases, is a behaviour of the contract of semantics.py: enqueue, dequeue, ack, nack,
\* lease expiry and aclose() are each one step of it, an ack or nack of a lease that
\* was taken back is ignored, and nothing else the code does is visible.
THEOREM QueueImplementsContract == Spec => ImplementsContract
<1>1. Init => Contract!ContractInit
  <2>. SUFFICES ASSUME Init PROVE Contract!ContractInit
    OBVIOUS
  <2>1. q.states = EmptyFunction /\ q.inFlight = EmptyFunction /\ settled = {}
    BY DEF Init, EmptyQueue
  <2>. QED BY <2>1 DEF Contract!ContractInit, EmptyFunction, DueOf, LeaseOf, DeadlineOf, AttemptOf
<1>2. RefinementInv /\ [Next]_vars => [Contract!ContractNext]_(Contract!contractVars)
  BY RefinementStep
<1>. QED BY <1>1, <1>2, RefinementInvHolds, PTL DEF Spec, ImplementsContract, Contract!ContractSpec
=============================================================================
