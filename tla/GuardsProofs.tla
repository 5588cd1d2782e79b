---------------------------- MODULE GuardsProofs ----------------------------
(***************************************************************************)
(* Proofs about what holds back a tool call: the slots of the concurrency  *)
(* limiter and the tokens of the rate limiter.  The lemmas about the       *)
(* bounded map serve the circuit breaker, too.                             *)
(***************************************************************************)
EXTENDS Guards, FiniteSetTheorems, TLAPS

\* Most steps are first-order; those that count or expand records cite SMT.
USE Zenon

----------------------------------------------------------------------------
(* ConcurrencyLimiter: the calls that hold a slot are counted                *)

Holding == {"guards", "approval", "approved", "run", "release"}

LimiterInv ==
    /\ total \in Nat /\ in_flight \in [Tools -> Nat]
    /\ at \in [Callers -> Holding \cup {"idle", "acquire", "waiting", "record"}]
    /\ SlotsAccounted

HoldersOf(t) == {c \in Holders : Call[c].tool = t}

LEMMA HoldersFinite ==
    /\ IsFiniteSet(Holders) /\ Holders \subseteq Callers
    /\ \A t : IsFiniteSet(HoldersOf(t))
<1>1. IsFiniteSet(Holders) /\ Holders \subseteq Callers
  BY GuardsConstants, FS_Subset DEF Holders
<1>. QED BY <1>1, FS_Subset DEF HoldersOf

LEMMA LimitsTyped == MaxGlobal \in Nat /\ \A t \in DOMAIN ToolLimit : ToolLimit[t] \in Nat
<1>1. MaxGlobal \in Nat /\ \A t \in DOMAIN ToolLimit : ToolLimit[t] \in 1..MaxGlobal
  BY GuardsConstants
<1>2. \A n \in 1..MaxGlobal : n \in Nat
  BY <1>1, SMT
<1>. QED BY <1>1, <1>2

\* A step in which no slot is taken or given back, and nobody goes to sleep.
LEMMA NoSlotMoves ==
    ASSUME LimiterInv, UNCHANGED limiter, NEW c \in Callers, NEW place,
           at' = [at EXCEPT ![c] = place],
           at[c] \in Holding <=> place \in Holding,
           \/ place \in Holding \cup {"idle", "acquire", "record"}
           \/ place = "waiting" /\ ~has_capacity(Call[c].tool)
    PROVE  LimiterInv'
<1>1. Holders' = Holders
  BY DEF LimiterInv, Holders, Holding
<1>2. \A d \in Callers : at'[d] = "waiting" => ~has_capacity(Call[d].tool)
  BY DEF LimiterInv, SlotsAccounted, Holding
<1>. QED BY <1>1, <1>2 DEF LimiterInv, SlotsAccounted, has_capacity, limiter

LEMMA LimiterStart == GuardsInit => LimiterInv
<1>. SUFFICES ASSUME GuardsInit PROVE LimiterInv
  OBVIOUS
<1>1. Holders = {}
  BY DEF GuardsInit, Holders
<1>2. Cardinality(Holders) = 0 /\ \A t : Cardinality({c \in Holders : Call[c].tool = t}) = 0
  BY <1>1, FS_EmptySet
<1>3. total = 0 /\ MaxGlobal \in Nat
  BY GuardsConstants DEF GuardsInit
<1>4. /\ in_flight \in [Tools -> Nat] /\ \A t \in Tools : in_flight[t] = 0
      /\ at \in [Callers -> Holding \cup {"idle", "acquire", "waiting", "record"}]
      /\ \A c \in Callers : at[c] = "idle"
  BY DEF GuardsInit
<1>5. \A t \in DOMAIN ToolLimit : ToolLimit[t] \in Nat
  BY LimitsTyped
<1>6. \A t \in Tools : in_flight[t] = Cardinality({c \in Holders : Call[c].tool = t})
  BY <1>2, <1>4
<1>7. SlotsAccounted
  BY <1>2, <1>3, <1>4, <1>5, <1>6, SMT DEF SlotsAccounted
<1>. QED BY <1>3, <1>4, <1>7 DEF LimiterInv

LEMMA AcquireKeepsSlots ==
    ASSUME LimiterInv, NEW c \in Callers, acquire(c) PROVE LimiterInv'
<1>. DEFINE t == Call[c].tool
<1>0. t \in Tools
  BY DEF Tools
<1>1. CASE has_capacity(t) /\ total' = total + 1 /\ in_flight' = [in_flight EXCEPT ![t] = @ + 1]
           /\ at' = [at EXCEPT ![c] = "guards"]
  <2>1. Holders' = Holders \cup {c} /\ c \notin Holders /\ at[c] = "acquire"
    BY <1>1 DEF LimiterInv, Holders, acquire
  <2>2. Cardinality(Holders') = Cardinality(Holders) + 1
    BY <2>1, HoldersFinite, FS_AddElement
  <2>3. ASSUME NEW u \in Tools
        PROVE  /\ in_flight'[u] = Cardinality(HoldersOf(u)')
               /\ u \in DOMAIN ToolLimit => in_flight'[u] <= ToolLimit[u]
    <3>1. /\ in_flight[u] \in Nat /\ in_flight[u] = Cardinality(HoldersOf(u))
          /\ u \in DOMAIN ToolLimit => in_flight[u] <= ToolLimit[u] /\ ToolLimit[u] \in Nat
      BY LimitsTyped DEF LimiterInv, SlotsAccounted, HoldersOf
    <3>2. CASE u = t
      <4>1. HoldersOf(u)' = HoldersOf(u) \cup {c} /\ c \notin HoldersOf(u)
        BY <2>1, <3>2 DEF HoldersOf
      <4>2. Cardinality(HoldersOf(u)') = Cardinality(HoldersOf(u)) + 1
        BY <4>1, HoldersFinite, FS_AddElement
      <4>3. in_flight'[u] = in_flight[u] + 1
        BY <1>1, <3>2 DEF LimiterInv
      <4>. QED BY <1>1, <3>1, <3>2, <4>2, <4>3, SMT DEF has_capacity
    <3>3. CASE u # t
      <4>1. HoldersOf(u)' = HoldersOf(u)
        BY <2>1, <3>3 DEF HoldersOf
      <4>2. in_flight'[u] = in_flight[u]
        BY <1>1, <3>3 DEF LimiterInv
      <4>. QED BY <3>1, <4>1, <4>2
    <3>. QED BY <3>2, <3>3
  <2>4. total' <= MaxGlobal /\ total' \in Nat /\ total' = Cardinality(Holders')
    BY <1>1, <2>2, GuardsConstants, SMT DEF has_capacity, LimiterInv, SlotsAccounted
  <2>5. in_flight' \in [Tools -> Nat]
    <3>1. in_flight \in [Tools -> Nat] /\ in_flight[t] + 1 \in Nat
      BY <1>0, SMT DEF LimiterInv
    <3>. HIDE DEF t
    <3>. QED BY <1>1, <3>1
  <2>6. \A d \in Callers : at'[d] = "waiting" => at[d] = "waiting"
    BY <1>1 DEF LimiterInv
  <2>7. ASSUME NEW d \in Callers, at'[d] = "waiting" PROVE ~has_capacity(Call[d].tool)'
    <3>1. ~has_capacity(Call[d].tool)
      BY <2>6, <2>7 DEF LimiterInv, SlotsAccounted
    <3>2. Call[d].tool \in Tools /\ in_flight[Call[d].tool] \in Nat
          /\ (in_flight'[Call[d].tool] = in_flight[Call[d].tool]
              \/ in_flight'[Call[d].tool] = in_flight[Call[d].tool] + 1)
      BY <1>1 DEF LimiterInv, Tools
    <3>3. Call[d].tool \in DOMAIN ToolLimit => ToolLimit[Call[d].tool] \in Nat
      BY LimitsTyped
    <3>. QED BY <1>1, <3>1, <3>2, <3>3, GuardsConstants DEF has_capacity, LimiterInv
  <2>8. at' \in [Callers -> Holding \cup {"idle", "acquire", "waiting", "record"}]
    BY <1>1 DEF LimiterInv, Holding
  <2>. QED BY <2>3, <2>4, <2>5, <2>7, <2>8 DEF LimiterInv, SlotsAccounted, HoldersOf
<1>2. CASE ~has_capacity(t) /\ UNCHANGED limiter /\ at' = [at EXCEPT ![c] = "waiting"]
  <2>1. at[c] \notin Holding /\ "waiting" \notin Holding
    BY DEF acquire, Holding
  <2>. QED BY <1>2, <2>1, NoSlotMoves
<1>. QED BY <1>1, <1>2 DEF acquire, Goto

LEMMA ReleaseKeepsSlots ==
    ASSUME LimiterInv, NEW c \in Callers, release(c) PROVE LimiterInv'
<1>. DEFINE t == Call[c].tool
<1>0. t \in Tools
  BY DEF Tools
<1>a. PICK next \in {"record", "idle"} :
        at' = [d \in Callers |-> CASE d = c -> next
                                   [] d # c /\ at[d] = "waiting" -> "acquire"
                                   [] OTHER -> at[d]]
  BY DEF release
<1>b. at[c] = "release" /\ total' = total - 1 /\ in_flight' = [in_flight EXCEPT ![t] = @ - 1]
  BY DEF release
<1>1. at'[c] = next /\ \A d \in Callers \ {c} : at'[d] = IF at[d] = "waiting" THEN "acquire" ELSE at[d]
  BY <1>a
<1>2. Holders' = Holders \ {c} /\ c \in Holders
  BY <1>1, <1>b DEF Holders
<1>3. Cardinality(Holders') = Cardinality(Holders) - 1
  BY <1>2, HoldersFinite, FS_RemoveElement
<1>c. Cardinality(Holders) \in Nat /\ Cardinality(Holders') \in Nat
  BY <1>2, HoldersFinite, FS_CardinalityType, FS_Subset
<1>4. ASSUME NEW u \in Tools
      PROVE  /\ in_flight'[u] = Cardinality(HoldersOf(u)') /\ in_flight'[u] \in Nat
             /\ u \in DOMAIN ToolLimit => in_flight'[u] <= ToolLimit[u]
  <2>1. /\ in_flight[u] \in Nat /\ in_flight[u] = Cardinality(HoldersOf(u))
        /\ u \in DOMAIN ToolLimit => in_flight[u] <= ToolLimit[u] /\ ToolLimit[u] \in Nat
    BY LimitsTyped DEF LimiterInv, SlotsAccounted, HoldersOf
  <2>2. CASE u = t
    <3>1. HoldersOf(u)' = HoldersOf(u) \ {c} /\ c \in HoldersOf(u)
      BY <1>2, <2>2 DEF HoldersOf
    <3>2. Cardinality(HoldersOf(u)') = Cardinality(HoldersOf(u)) - 1
      BY <3>1, HoldersFinite, FS_RemoveElement
    <3>3. Cardinality(HoldersOf(u)') \in Nat
      <4>1. IsFiniteSet(HoldersOf(u)')
        BY <3>1, HoldersFinite, FS_Subset
      <4>. QED BY <4>1, FS_CardinalityType
    <3>4. in_flight'[u] = in_flight[u] - 1
      BY <1>b, <2>2 DEF LimiterInv
    <3>. QED BY <2>1, <3>2, <3>3, <3>4, SMT
  <2>3. CASE u # t
    <3>1. HoldersOf(u)' = HoldersOf(u)
      BY <1>2, <2>3 DEF HoldersOf
    <3>2. in_flight'[u] = in_flight[u]
      BY <1>b, <2>3 DEF LimiterInv
    <3>. QED BY <2>1, <3>1, <3>2
  <2>. QED BY <2>2, <2>3
<1>5. total' <= MaxGlobal /\ total' \in Nat /\ total' = Cardinality(Holders')
  BY <1>3, <1>b, <1>c, GuardsConstants, SMT DEF LimiterInv, SlotsAccounted
<1>6. in_flight' \in [Tools -> Nat]
  BY <1>4, <1>b DEF LimiterInv
<1>7. \A d \in Callers : at'[d] # "waiting"
  BY <1>1
<1>8. at' \in [Callers -> Holding \cup {"idle", "acquire", "waiting", "record"}]
  <2>1. \A d \in Callers : at'[d] \in Holding \cup {"idle", "acquire", "waiting", "record"}
    BY <1>1 DEF LimiterInv
  <2>. QED BY <1>a, <2>1
<1>. QED BY <1>4, <1>5, <1>6, <1>7, <1>8 DEF LimiterInv, SlotsAccounted, HoldersOf

LEMMA LimiterStep == LimiterInv /\ [GuardsNext]_guards_vars => LimiterInv'
<1>. SUFFICES ASSUME LimiterInv, [GuardsNext]_guards_vars PROVE LimiterInv'
  OBVIOUS
<1>1. CASE UNCHANGED <<limiter, at>>
  <2>1. Holders' = Holders
    BY <1>1 DEF Holders
  <2>. QED BY <1>1, <2>1 DEF LimiterInv, SlotsAccounted, has_capacity, limiter
<1>2. ASSUME NEW c \in Callers, UseCachedSuccess(c) \/ Begin(c) \/ CancelWait(c) \/ RecordResult(c)
      PROVE  LimiterInv'
  <2>1. PICK place \in {"idle", "acquire"} : at' = [at EXCEPT ![c] = place]
    BY <1>2 DEF UseCachedSuccess, Begin, CancelWait, RecordResult, Goto
  <2>2. UNCHANGED limiter /\ at[c] \notin Holding /\ place \notin Holding
    BY <1>2 DEF UseCachedSuccess, Begin, CancelWait, RecordResult, Holding
  <2>3. place \in Holding \cup {"idle", "acquire", "record"}
    OBVIOUS
  <2>. QED BY <2>1, <2>2, <2>3, NoSlotMoves
<1>3. ASSUME NEW c \in Callers, \/ CheckGuards(c) \/ FindApproval(c) \/ CheckGuardsApproved(c)
                                \/ \E r \in {"ok", "failed", "raised"} : RunTool(c, r)
      PROVE  LimiterInv'
  <2>1. PICK place \in {"run", "approval", "approved", "release"} : at' = [at EXCEPT ![c] = place]
    BY <1>3 DEF CheckGuards, FindApproval, CheckGuardsApproved, RunTool, After, Goto
  <2>2. UNCHANGED limiter /\ at[c] \in Holding /\ place \in Holding
    BY <1>3 DEF CheckGuards, FindApproval, CheckGuardsApproved, RunTool, Holding
  <2>3. place \in Holding \cup {"idle", "acquire", "record"}
    BY <2>2
  <2>. QED BY <2>1, <2>2, <2>3, NoSlotMoves
<1>4. CASE Tick \/ UNCHANGED guards_vars
  BY <1>1, <1>4 DEF Tick, guards_vars
<1>. QED BY <1>2, <1>3, <1>4, AcquireKeepsSlots, ReleaseKeepsSlots DEF GuardsNext

\* ConcurrencyLimiter counts exactly the calls that hold a slot and keeps its limits, for any
\* callers, tools and limits, and leaves nobody asleep beside a slot it could take.
THEOREM SlotsAreAccounted == GuardsSpec => []SlotsAccounted
BY LimiterStart, LimiterStep, PTL DEF GuardsSpec, LimiterInv

----------------------------------------------------------------------------
(* The bounded OrderedDict                                                   *)

\* A map from K to V: every key has one place.
LruMaps(K, V) ==
    {d \in Seq([key : K, val : V]) : \A i, j \in DOMAIN d : d[i].key = d[j].key => i = j}

LEMMA LeastExists ==
    ASSUME NEW T \in SUBSET Nat, T # {}
    PROVE  \E n \in T : \A m \in T : n <= m
<1>. DEFINE R == OpToRel(<, Nat)
<1>1. IsWellFoundedOn(R, Nat)
  BY NatLessThanWellFounded
<1>2. \A n, m \in T : n < m => <<n, m>> \in R
  BY SMT DEF OpToRel
<1>. HIDE DEF R
<1>3. PICK n \in T : \A m \in T : ~(<<m, n>> \in R)
  BY <1>1, WFMin
<1>4. \A m \in T : ~(m < n)
  BY <1>2, <1>3
<1>. QED BY <1>4, SMT

LEMMA SuffixFacts ==
    ASSUME NEW S, NEW s \in Seq(S), NEW a \in 1..Len(s) + 1
    PROVE  /\ SubSeq(s, a, Len(s)) \in Seq(S)
           /\ Len(SubSeq(s, a, Len(s))) = Len(s) - a + 1
           /\ \A i \in 1..Len(s) - a + 1 : SubSeq(s, a, Len(s))[i] = s[i + a - 1]
  BY SMT

\* What leaves from the old end is not fresh, and what stays begins with a fresh entry.
LEMMA EvictExpiredFacts ==
    ASSUME NEW S, NEW s \in Seq(S), NEW fresh \in SUBSET DOMAIN s
    PROVE  \E a \in 1..Len(s) + 1 : /\ EvictExpired(s, fresh) = SubSeq(s, a, Len(s))
                                    /\ \A i \in fresh : a <= i
                                    /\ a <= Len(s) => a \in fresh
<1>1. CASE fresh = {}
  <2>1. EvictExpired(s, fresh) = SubSeq(s, Len(s) + 1, Len(s))
    BY <1>1, SMT DEF EvictExpired
  <2>2. Len(s) + 1 \in 1..Len(s) + 1 /\ ~(Len(s) + 1 <= Len(s))
    BY SMT
  <2>. QED BY <1>1, <2>1, <2>2
<1>2. CASE fresh # {}
  <2>1. PICK n \in fresh : \A j \in fresh : n <= j
    <3>1. fresh \in SUBSET Nat
      BY SMT
    <3>. QED BY <1>2, <3>1, LeastExists
  <2>. DEFINE a == CHOOSE i \in fresh : \A j \in fresh : i <= j
  <2>2. a \in fresh /\ \A j \in fresh : a <= j
    BY <2>1
  <2>3. EvictExpired(s, fresh) = SubSeq(s, a, Len(s))
    BY <1>2 DEF EvictExpired
  <2>4. a \in 1..Len(s) + 1
    BY <2>2, SMT
  <2>. QED BY <2>2, <2>3, <2>4
<1>. QED BY <1>1, <1>2

LEMMA ElementsOf == ASSUME NEW S, NEW s \in Seq(S), NEW i \in DOMAIN s PROVE s[i] \in S
  BY SMT

LEMMA PlaceFacts ==
    ASSUME NEW K, NEW V, NEW d \in LruMaps(K, V), NEW i \in DOMAIN d, NEW k, d[i].key = k
    PROVE  /\ Has(d, k) /\ PlaceOf(d, k) = i /\ Lookup(d, k) = d[i].val
           /\ k \in K /\ d[i].val \in V
<1>1. d \in Seq([key : K, val : V]) /\ \A j \in DOMAIN d : d[j].key = d[i].key => j = i
  BY DEF LruMaps
<1>2. Has(d, k)
  BY DEF Has
<1>3. PlaceOf(d, k) = i
  BY <1>1 DEF PlaceOf
<1>4. d[i] \in [key : K, val : V]
  BY <1>1, ElementsOf
<1>5. d[i].key \in K /\ d[i].val \in V
  BY <1>4, SMT
<1>. QED BY <1>2, <1>3, <1>5 DEF Lookup

LEMMA HasFacts ==
    ASSUME NEW K, NEW V, NEW d \in LruMaps(K, V), NEW k, Has(d, k)
    PROVE  /\ PlaceOf(d, k) \in DOMAIN d /\ d[PlaceOf(d, k)].key = k
           /\ k \in K /\ Lookup(d, k) \in V
<1>1. PICK i \in DOMAIN d : d[i].key = k
  BY DEF Has
<1>2. PlaceOf(d, k) = i /\ Lookup(d, k) = d[i].val /\ k \in K /\ d[i].val \in V
  BY <1>1, PlaceFacts, SMT
<1>. QED BY <1>1, <1>2

\* A map without its oldest entries.
LEMMA SuffixOfMap ==
    ASSUME NEW K, NEW V, NEW d \in LruMaps(K, V), NEW a \in 1..Len(d) + 1
    PROVE  LET e == SubSeq(d, a, Len(d)) IN
           /\ e \in LruMaps(K, V)
           /\ \A k : Has(e, k) <=> Has(d, k) /\ a <= PlaceOf(d, k)
           /\ \A k : Has(e, k) => Lookup(e, k) = Lookup(d, k)
<1>. DEFINE e == SubSeq(d, a, Len(d))
            E == [key : K, val : V]
<1>1. d \in Seq(E) /\ \A i, j \in DOMAIN d : d[i].key = d[j].key => i = j
  BY DEF LruMaps
<1>. HIDE DEF E
<1>2. /\ e \in Seq(E) /\ DOMAIN e = 1..Len(d) - a + 1 /\ DOMAIN d = 1..Len(d)
      /\ \A i \in DOMAIN e : e[i] = d[i + a - 1] /\ i + a - 1 \in DOMAIN d
      /\ \A i \in DOMAIN d : a <= i => i - a + 1 \in DOMAIN e /\ (i - a + 1) + a - 1 = i
      /\ \A i \in DOMAIN e : a <= i + a - 1
      /\ \A i, j \in DOMAIN e : i + a - 1 = j + a - 1 => i = j
  BY <1>1, SMT
<1>. HIDE DEF e
<1>3. e \in LruMaps(K, V)
  <2>1. ASSUME NEW i \in DOMAIN e, NEW j \in DOMAIN e, e[i].key = e[j].key
        PROVE  i = j
    <3>1. d[i + a - 1].key = d[j + a - 1].key /\ i + a - 1 \in DOMAIN d /\ j + a - 1 \in DOMAIN d
      BY <1>2, <2>1
    <3>2. i + a - 1 = j + a - 1
      BY <1>1, <3>1
    <3>. QED BY <1>2, <3>2
  <2>. QED BY <1>2, <2>1 DEF LruMaps, E
<1>4. ASSUME NEW k, Has(e, k)
      PROVE  Has(d, k) /\ a <= PlaceOf(d, k) /\ Lookup(e, k) = Lookup(d, k)
  <2>1. PICK i \in DOMAIN e : e[i].key = k
    BY <1>4 DEF Has
  <2>2. i + a - 1 \in DOMAIN d /\ e[i] = d[i + a - 1] /\ a <= i + a - 1
    BY <1>2
  <2>3. /\ Lookup(e, k) = e[i].val /\ Lookup(d, k) = d[i + a - 1].val
        /\ Has(d, k) /\ PlaceOf(d, k) = i + a - 1
    BY <1>3, <2>1, <2>2, PlaceFacts, SMT
  <2>. QED BY <2>2, <2>3
<1>5. ASSUME NEW k, Has(d, k), a <= PlaceOf(d, k)
      PROVE  Has(e, k)
  <2>1. PlaceOf(d, k) \in DOMAIN d /\ d[PlaceOf(d, k)].key = k
    BY <1>5, HasFacts, SMT
  <2>2. PlaceOf(d, k) - a + 1 \in DOMAIN e /\ e[PlaceOf(d, k) - a + 1].key = k
    BY <1>2, <1>5, <2>1
  <2>. QED BY <2>2 DEF Has
<1>. QED BY <1>3, <1>4, <1>5 DEF e

\* _evict_expired forgets nothing that is fresh.
LEMMA EvictExpiredMap ==
    ASSUME NEW K, NEW V, NEW d \in LruMaps(K, V), NEW fresh \in SUBSET DOMAIN d
    PROVE  LET e == EvictExpired(d, fresh) IN
           /\ e \in LruMaps(K, V)
           /\ \A k : Has(e, k) => Has(d, k) /\ Lookup(e, k) = Lookup(d, k)
           /\ \A k : Has(d, k) /\ ~Has(e, k) => PlaceOf(d, k) \notin fresh
<1>1. d \in Seq([key : K, val : V])
  BY DEF LruMaps
<1>2. PICK a \in 1..Len(d) + 1 : /\ EvictExpired(d, fresh) = SubSeq(d, a, Len(d))
                                 /\ \A i \in fresh : a <= i
  BY <1>1, EvictExpiredFacts
<1>. QED BY <1>2, SuffixOfMap, SMT

\* _evict_lru keeps everything when there is room, and in any case the newest entry.
LEMMA EvictLruMap ==
    ASSUME NEW K, NEW V, NEW d \in LruMaps(K, V), NEW max \in Nat \ {0}
    PROVE  LET e == EvictLru(d, max) IN
           /\ e \in LruMaps(K, V)
           /\ \A k : Has(e, k) => Has(d, k) /\ Lookup(e, k) = Lookup(d, k)
           /\ Len(d) <= max => e = d
           /\ \A k : Has(d, k) /\ PlaceOf(d, k) = Len(d) => Has(e, k)
<1>1. Len(d) \in Nat
  BY SMT DEF LruMaps
<1>2. CASE Len(d) <= max
  <2>1. ~(Len(d) > max)
    BY <1>1, <1>2, SMT
  <2>. QED BY <2>1 DEF EvictLru
<1>3. CASE ~(Len(d) <= max)
  <2>1. /\ Len(d) > max /\ Len(d) - max + 1 \in 1..Len(d) + 1 /\ Len(d) - max + 1 <= Len(d)
    BY <1>1, <1>3, SMT
  <2>2. EvictLru(d, max) = SubSeq(d, Len(d) - max + 1, Len(d))
    BY <2>1 DEF EvictLru
  <2>. QED BY <1>3, <2>1, <2>2, SuffixOfMap, SMT
<1>. QED BY <1>2, <1>3

LEMMA TouchMap ==
    ASSUME NEW K, NEW V, NEW d \in LruMaps(K, V), NEW k \in K, NEW v \in V
    PROVE  LET e == Touch(d, k, v) IN
           /\ e \in LruMaps(K, V)
           /\ Has(e, k) /\ Lookup(e, k) = v /\ PlaceOf(e, k) = Len(e)
           /\ \A j : j # k => (Has(e, j) <=> Has(d, j))
           /\ \A j : j # k /\ Has(d, j) => Lookup(e, j) = Lookup(d, j)
<1>. DEFINE E == [key : K, val : V]
            p == PlaceOf(d, k)
            new == [key |-> k, val |-> v]
            others == IF Has(d, k) THEN SubSeq(d, 1, p - 1) \o SubSeq(d, p + 1, Len(d)) ELSE d
            From(i) == IF Has(d, k) /\ p <= i THEN i + 1 ELSE i
            e == Touch(d, k, v)
<1>1. d \in Seq(E) /\ \A i, j \in DOMAIN d : d[i].key = d[j].key => i = j
  BY DEF LruMaps
<1>2. new \in E /\ new.key = k /\ new.val = v
  BY SMT
<1>3. e = Append(others, new)
  BY DEF Touch
<1>. HIDE DEF E, new, e
<1>4. /\ others \in Seq(E)
      /\ \A i \in DOMAIN others : others[i] = d[From(i)] /\ From(i) \in DOMAIN d /\ d[From(i)].key # k
      /\ \A i, j \in DOMAIN others : From(i) = From(j) => i = j
      /\ \A j \in DOMAIN d : d[j].key # k => \E i \in DOMAIN others : From(i) = j
  <2>1. CASE Has(d, k)
    <3>1. p \in DOMAIN d /\ d[p].key = k
      BY <2>1, HasFacts, SMT
    <3>. HIDE DEF p
    <3>2. others = SubSeq(d, 1, p - 1) \o SubSeq(d, p + 1, Len(d))
      BY <2>1
    <3>3. /\ others \in Seq(E) /\ DOMAIN others = 1..Len(d) - 1
          /\ \A i \in 1..Len(d) - 1 : others[i] = d[IF p <= i THEN i + 1 ELSE i]
      BY <1>1, <3>1, <3>2, SMTT(60)
    <3>4. \A i : From(i) = IF p <= i THEN i + 1 ELSE i
      BY <2>1
    <3>. HIDE DEF others, From
    <3>5. p \in 1..Len(d) /\ DOMAIN d = 1..Len(d) /\ Len(d) \in Nat
      BY <1>1, <3>1, SMT
    <3>6. \A i \in 1..Len(d) - 1 : From(i) \in 1..Len(d) /\ From(i) # p
      BY <3>4, <3>5, SMT
    <3>7. \A i, j \in 1..Len(d) - 1 : From(i) = From(j) => i = j
      BY <3>4, <3>5, SMT
    <3>8. ASSUME NEW j \in 1..Len(d), j # p
          PROVE  \E i \in 1..Len(d) - 1 : From(i) = j
      <4>1. CASE j < p
        <5>1. j \in 1..Len(d) - 1 /\ From(j) = j
          BY <3>4, <3>5, <4>1, SMT
        <5>. QED BY <5>1
      <4>2. CASE ~(j < p)
        <5>1. j - 1 \in 1..Len(d) - 1 /\ From(j - 1) = j
          BY <3>4, <3>5, <3>8, <4>2, SMT
        <5>. QED BY <5>1
      <4>. QED BY <4>1, <4>2
    <3>. QED BY <1>1, <3>1, <3>3, <3>4, <3>5, <3>6, <3>7, <3>8
  <2>2. CASE ~Has(d, k)
    BY <1>1, <2>2 DEF Has
  <2>. QED BY <2>1, <2>2
<1>. HIDE DEF others, From
<1>5. /\ e \in Seq(E) /\ Len(e) = Len(others) + 1 /\ DOMAIN others = 1..Len(others)
      /\ Len(others) \in Nat /\ DOMAIN e = 1..Len(e)
      /\ e[Len(e)] = new /\ \A i \in DOMAIN others : e[i] = others[i]
  BY <1>2, <1>3, <1>4, SMT
<1>6. /\ \A i \in DOMAIN e : i \in DOMAIN others \/ i = Len(e)
      /\ \A i \in DOMAIN others : i \in DOMAIN e
      /\ Len(e) \in DOMAIN e
  BY <1>5, SMT
<1>7. e \in LruMaps(K, V)
  <2>1. \A i, j \in DOMAIN e : e[i].key = e[j].key => i = j
    BY <1>1, <1>2, <1>4, <1>5, <1>6, SMT
  <2>. QED BY <1>5, <2>1 DEF LruMaps, E
<1>8. Has(e, k) /\ Lookup(e, k) = v /\ PlaceOf(e, k) = Len(e)
  BY <1>2, <1>5, <1>6, <1>7, PlaceFacts, SMT
<1>9. ASSUME NEW j, j # k, Has(d, j)
      PROVE  Has(e, j) /\ Lookup(e, j) = Lookup(d, j)
  <2>1. PICK q \in DOMAIN d : d[q].key = j
    BY <1>9 DEF Has
  <2>2. PICK i \in DOMAIN others : From(i) = q
    BY <1>4, <1>9, <2>1
  <2>3. i \in DOMAIN e /\ e[i] = d[q]
    BY <1>4, <1>5, <1>6, <2>2
  <2>. QED BY <1>7, <2>1, <2>3, PlaceFacts, SMT
<1>10. ASSUME NEW j, j # k, Has(e, j)
       PROVE  Has(d, j)
  <2>1. PICK i \in DOMAIN e : e[i].key = j
    BY <1>10 DEF Has
  <2>2. i \in DOMAIN others
    BY <1>2, <1>5, <1>6, <1>10, <2>1
  <2>. QED BY <1>4, <1>5, <2>1, <2>2, SMT DEF Has
<1>. QED BY <1>7, <1>8, <1>9, <1>10 DEF e

\* A map has at most as many entries as there are keys.
LEMMA MapSize ==
    ASSUME NEW K, IsFiniteSet(K), NEW V, NEW d \in LruMaps(K, V)
    PROVE  Len(d) \in Nat /\ Len(d) <= Cardinality(K)
<1>1. d \in Seq([key : K, val : V]) /\ \A i, j \in DOMAIN d : d[i].key = d[j].key => i = j
  BY DEF LruMaps
<1>2. DOMAIN d = 1..Len(d) /\ Len(d) \in Nat
  BY <1>1, SMT
<1>. DEFINE f == [i \in 1..Len(d) |-> d[i].key]
<1>3. f \in [1..Len(d) -> K]
  BY <1>2, PlaceFacts
<1>4. f \in Injection(1..Len(d), K)
  BY <1>1, <1>2, <1>3 DEF Injection, IsInjective
<1>5. Cardinality(1..Len(d)) <= Cardinality(K)
  BY <1>4, FS_Injection
<1>6. Cardinality(1..Len(d)) = Len(d)
  <2>1. 1 \in Int /\ Len(d) \in Int
    BY <1>2, SMT
  <2>2. Cardinality(1..Len(d)) = IF 1 > Len(d) THEN 0 ELSE Len(d) - 1 + 1
    BY <2>1, FS_Interval
  <2>. QED BY <1>2, <2>2, SMT
<1>. QED BY <1>2, <1>5, <1>6

----------------------------------------------------------------------------
(* The token buckets                                                         *)

Buckets == [tokens : Nat, updated_at : Nat]

LEMMA Times ==
    ASSUME NEW m \in Nat, NEW a \in Nat, NEW b \in Nat
    PROVE  /\ m * a \in Nat
           /\ a <= b => m * a <= m * b
           /\ m * (a + b) = m * a + m * b
<1>1. m * a \in Nat
  BY SMT
<1>2. m * (a + b) = m * a + m * b
  BY SMT
<1>3. ASSUME a <= b PROVE m * a <= m * b
  <2>1. PICK x \in Nat : b = a + x
    <3>1. b - a \in Nat /\ b = a + (b - a)
      BY <1>3, SMT
    <3>. QED BY <3>1
  <2>2. m * b = m * a + m * x
    BY <2>1, SMT
  <2>3. m * x \in Nat /\ m * a \in Nat /\ m * b \in Nat
    BY SMT
  <2>. QED BY <2>2, <2>3, SMT
<1>. QED BY <1>1, <1>2, <1>3

LEMMA SpecFacts ==
    ASSUME NEW spec \in Specs
    PROVE  /\ spec.capacity \in Nat /\ spec.burst \in Nat /\ spec.rate \in Nat
           /\ max_tokens(spec) \in Nat
  BY SMT DEF Specs, max_tokens

\* A bucket never holds more than its maximum, and never gains more than the rate allows.
LEMMA ConsumeFacts ==
    ASSUME NEW spec \in Specs, NEW b \in Buckets, NEW cost \in Nat, NEW now \in Nat,
           b.tokens <= max_tokens(spec), b.updated_at <= now
    PROVE  LET r == bucket_consume(spec, b, cost, now) IN
           /\ r.bucket \in Buckets /\ r.bucket.updated_at = now
           /\ r.bucket.tokens <= max_tokens(spec)
           /\ r.bucket.tokens + (IF r.result.allowed THEN cost ELSE 0)
                <= b.tokens + spec.rate * (now - b.updated_at)
<1>. DEFINE max == max_tokens(spec)
            gain == spec.rate * (now - b.updated_at)
            full == refill(spec, b, now)
            r == bucket_consume(spec, b, cost, now)
<1>1. /\ max \in Nat /\ spec.rate \in Nat /\ b.tokens \in Nat /\ b.updated_at \in Nat
  BY SpecFacts, SMT DEF Buckets
<1>2. now - b.updated_at \in Nat
  BY <1>1, SMT
<1>3. gain \in Nat /\ gain = (now - b.updated_at) * spec.rate
  BY <1>1, <1>2, SMT
<1>. HIDE DEF max, gain
<1>4. full \in Buckets /\ full.updated_at = now /\ full.tokens <= max /\ full.tokens <= b.tokens + gain
  <2>1. CASE now <= b.updated_at
    <3>1. full = [b EXCEPT !.updated_at = now]
      BY <2>1, SMT DEF refill
    <3>2. b = [tokens |-> b.tokens, updated_at |-> b.updated_at]
      BY SMT DEF Buckets
    <3>3. full = [tokens |-> b.tokens, updated_at |-> now]
      BY <3>1, <3>2, SMT
    <3>4. b.tokens <= max
      BY DEF max
    <3>. QED BY <1>1, <1>3, <3>3, <3>4, SMT DEF Buckets
  <2>2. CASE ~(now <= b.updated_at)
    <3>1. full = [tokens |-> IF b.tokens + gain <= max THEN b.tokens + gain ELSE max, updated_at |-> now]
      BY <1>3, <2>2 DEF refill, max
    <3>. QED BY <1>1, <1>3, <3>1, SMT DEF Buckets
  <2>. QED BY <2>1, <2>2
<1>. HIDE DEF full
<1>5. full = [tokens |-> full.tokens, updated_at |-> now] /\ full.tokens \in Nat
  BY <1>4, SMT DEF Buckets
<1>6. \/ r.bucket = full /\ ~r.result.allowed
      \/ cost <= full.tokens /\ r.bucket = [full EXCEPT !.tokens = @ - cost] /\ r.result.allowed
  BY SMT DEF bucket_consume, full, Result
<1>7. CASE r.bucket = full /\ ~r.result.allowed
  BY <1>1, <1>3, <1>4, <1>5, <1>7, SMT DEF max, gain
<1>8. CASE cost <= full.tokens /\ r.bucket = [full EXCEPT !.tokens = @ - cost] /\ r.result.allowed
  <2>1. r.bucket = [tokens |-> full.tokens - cost, updated_at |-> now]
    BY <1>5, <1>8, SMT
  <2>2. full.tokens - cost \in Nat /\ full.tokens - cost <= max
    BY <1>1, <1>4, <1>5, <1>8, SMT
  <2>3. r.bucket \in Buckets /\ r.bucket.updated_at = now /\ r.bucket.tokens = full.tokens - cost
    BY <2>1, <2>2, SMT DEF Buckets
  <2>. QED BY <1>1, <1>3, <1>4, <1>5, <1>8, <2>2, <2>3, SMT DEF max, gain
<1>. QED BY <1>6, <1>7, <1>8 DEF max, gain

\* The three checks of a call are for different keys, and a key has one spec.
LEMMA ChecksOf ==
    ASSUME NEW c \in Callers, NEW i \in 1..3
    PROVE  LET s == resolve_checks(Call[c]) IN
           /\ s[i].spec \in Specs
           /\ s[i].key[1] = CASE i = 1 -> "tool" [] i = 2 -> "destination" [] OTHER -> "run"
           /\ s[i].spec # NoSpec => s[i] \in Checks /\ s[i].key \in CheckKeys
<1>. DEFINE s == resolve_checks(Call[c])
<1>1. NoSpec \in Specs
  BY SMT DEF NoSpec, Specs
<1>2. \A name : SpecFor(PerTool, name) \in Specs /\ SpecFor(PerDestination, name) \in Specs
  BY LimiterConstants DEF SpecFor
<1>3. \A kind, name, applies, spec : spec \in Specs =>
        /\ Check(kind, name, applies, spec).spec \in Specs
        /\ Check(kind, name, applies, spec).key[1] = kind
  BY <1>1, SMT DEF Check
<1>4. /\ s[1] = Check("tool", Call[c].tool, TRUE, SpecFor(PerTool, Call[c].tool))
      /\ s[2] = Check("destination", Call[c].destination, Call[c].destination # None,
                      SpecFor(PerDestination, Call[c].destination))
      /\ s[3] = Check("run", Call[c].run, Call[c].run # None, PerRun)
  BY DEF resolve_checks
<1>. HIDE DEF s
<1>5. i = 1 \/ i = 2 \/ i = 3
  BY SMT
<1>6. /\ s[1].spec \in Specs /\ s[1].key[1] = "tool"
      /\ s[2].spec \in Specs /\ s[2].key[1] = "destination"
      /\ s[3].spec \in Specs /\ s[3].key[1] = "run"
  <2>1. s[1].spec \in Specs /\ s[1].key[1] = "tool"
    BY <1>1, <1>2, <1>4, SMT DEF Check
  <2>2. s[2].spec \in Specs /\ s[2].key[1] = "destination"
    BY <1>2, <1>3, <1>4, SMT
  <2>3. PerRun \in Specs
    BY LimiterConstants
  <2>4. s[3].spec \in Specs /\ s[3].key[1] = "run"
    BY <1>3, <1>4, <2>3, SMT
  <2>. QED BY <2>1, <2>2, <2>4
<1>7. /\ s[i].spec \in Specs
      /\ s[i].key[1] = CASE i = 1 -> "tool" [] i = 2 -> "destination" [] OTHER -> "run"
  BY <1>5, <1>6, SMT
<1>8. s[i].spec # NoSpec => s[i] \in Checks /\ s[i].key \in CheckKeys
  <2>1. SUFFICES ASSUME s[i].spec # NoSpec PROVE s[i] \in Checks
    BY DEF CheckKeys
  <2>2. s[i] \in {resolve_checks(Call[c])[j] : j \in 1..3}
    BY DEF s
  <2>3. s[i] \in UNION {{resolve_checks(Call[b])[j] : j \in 1..3} : b \in Callers}
    BY <2>2
  <2>. QED BY <2>1, <2>3 DEF Checks
<1>. QED BY <1>7, <1>8 DEF s

LEMMA OneSpec ==
    ASSUME NEW k \in Checks, NEW l \in Checks, k.key = l.key
    PROVE  k = l
<1>. DEFINE Tool(x) == Check("tool", x, TRUE, SpecFor(PerTool, x))
            Destination(x) == Check("destination", x, x # None, SpecFor(PerDestination, x))
            Run(x) == Check("run", x, x # None, PerRun)
<1>1. ASSUME NEW m \in Checks
      PROVE  \E x : m = Tool(x) \/ m = Destination(x) \/ m = Run(x)
  <2>1. PICK c \in Callers, i \in 1..3 : m = resolve_checks(Call[c])[i]
    BY DEF Checks
  <2>2. i = 1 \/ i = 2 \/ i = 3
    BY SMT
  <2>3. \/ m = resolve_checks(Call[c])[1] \/ m = resolve_checks(Call[c])[2]
        \/ m = resolve_checks(Call[c])[3]
    BY <2>1, <2>2
  <2>4. /\ resolve_checks(Call[c])[1] = Tool(Call[c].tool)
        /\ resolve_checks(Call[c])[2] = Destination(Call[c].destination)
        /\ resolve_checks(Call[c])[3] = Run(Call[c].run)
    BY DEF resolve_checks
  <2>. HIDE DEF Tool, Destination, Run
  <2>. QED BY <2>3, <2>4
<1>2. \A x, y : /\ Tool(x).key = <<"tool", x>>
                /\ Destination(x).key = <<"destination", x>>
                /\ Run(x).key = <<"run", x>>
  BY DEF Check
<1>3. PICK x : k = Tool(x) \/ k = Destination(x) \/ k = Run(x)
  BY <1>1
<1>4. PICK y : l = Tool(y) \/ l = Destination(y) \/ l = Run(y)
  BY <1>1
<1>. HIDE DEF Tool, Destination, Run
<1>5. x = y
  BY <1>2, <1>3, <1>4, SMT
<1>6. \/ k = Tool(x) /\ l = Tool(y)
      \/ k = Destination(x) /\ l = Destination(y)
      \/ k = Run(x) /\ l = Run(y)
  BY <1>2, <1>3, <1>4, SMT
<1>. QED BY <1>5, <1>6, SMT

LEMMA CheckKeysFinite == IsFiniteSet(CheckKeys)
<1>. DEFINE places == {p \in Callers \X (1..3) : resolve_checks(Call[p[1]])[p[2]].spec # NoSpec}
            f == [p \in places |-> resolve_checks(Call[p[1]])[p[2]].key]
<1>1. IsFiniteSet(1..3)
  <2>1. 1 \in Int /\ 3 \in Int
    BY SMT
  <2>. QED BY <2>1, FS_Interval
<1>2. IsFiniteSet(Callers \X (1..3))
  BY <1>1, GuardsConstants, FS_Product
<1>3. IsFiniteSet(places)
  BY <1>2, FS_Subset
<1>4. f \in Surjection(places, CheckKeys)
  <2>1. \A p \in places : f[p] \in CheckKeys
    <3>1. SUFFICES ASSUME NEW p \in places PROVE resolve_checks(Call[p[1]])[p[2]].key \in CheckKeys
      OBVIOUS
    <3>2. p[1] \in Callers /\ p[2] \in 1..3 /\ resolve_checks(Call[p[1]])[p[2]].spec # NoSpec
      OBVIOUS
    <3>. QED BY <3>2, ChecksOf
  <2>2. ASSUME NEW x \in CheckKeys PROVE \E p \in places : f[p] = x
    <3>1. PICK k \in Checks : x = k.key
      BY DEF CheckKeys
    <3>2. PICK c \in Callers, i \in 1..3 : k = resolve_checks(Call[c])[i]
      BY DEF Checks
    <3>3. k.spec # NoSpec
      BY DEF Checks
    <3>4. <<c, i>> \in places /\ f[<<c, i>>] = x
      BY <3>1, <3>2, <3>3
    <3>. QED BY <3>4
  <2>. QED BY <2>1, <2>2 DEF Surjection
<1>. QED BY <1>3, <1>4, FS_Surjection

LEMMA CheckSpec ==
    ASSUME NEW k \in Checks
    PROVE  k.spec \in Specs /\ k.key \in CheckKeys
<1>1. PICK c \in Callers, i \in 1..3 : k = resolve_checks(Call[c])[i]
  BY DEF Checks
<1>2. k.spec \in Specs
  BY <1>1, ChecksOf
<1>. QED BY <1>2 DEF CheckKeys

\* No bucket is overfull or from the future.
BucketsKept(d, now) ==
    /\ d \in LruMaps(CheckKeys, Buckets)
    /\ \A k \in Checks : Has(d, k.key) =>
         Lookup(d, k.key).tokens <= max_tokens(k.spec) /\ Lookup(d, k.key).updated_at <= now

\* n tokens have been taken for k: with those left they are no more than there can have been
\* when the bucket was last refilled, and a bucket that is forgotten would be full by now.
Budget(d, k, n, now) ==
    IF Has(d, k.key)
    THEN n + Lookup(d, k.key).tokens <= max_tokens(k.spec) + k.spec.rate * Lookup(d, k.key).updated_at
    ELSE n <= k.spec.rate * now

LEMMA EvictExpiredKeeps ==
    ASSUME NEW d, NEW now \in Nat, BucketsKept(d, now)
    PROVE  LET e == EvictExpired(d, {i \in DOMAIN d : now - d[i].val.updated_at <= LimiterTtl}) IN
           /\ BucketsKept(e, now)
           /\ \A k \in Refilled, n \in Nat : Budget(d, k, n, now) => Budget(e, k, n, now)
<1>. DEFINE fresh == {i \in DOMAIN d : now - d[i].val.updated_at <= LimiterTtl}
            e == EvictExpired(d, fresh)
<1>1. d \in LruMaps(CheckKeys, Buckets) /\ fresh \in SUBSET DOMAIN d
  BY DEF BucketsKept
<1>2. /\ e \in LruMaps(CheckKeys, Buckets)
      /\ \A k : Has(e, k) => Has(d, k) /\ Lookup(e, k) = Lookup(d, k)
      /\ \A k : Has(d, k) /\ ~Has(e, k) => PlaceOf(d, k) \notin fresh
  BY <1>1, EvictExpiredMap
<1>. HIDE DEF e
<1>3. BucketsKept(e, now)
  BY <1>2 DEF BucketsKept
<1>4. ASSUME NEW k \in Refilled, NEW n \in Nat, Budget(d, k, n, now)
      PROVE  Budget(e, k, n, now)
  <2>1. CASE Has(e, k.key) \/ ~Has(d, k.key)
    BY <1>2, <1>4, <2>1 DEF Budget
  <2>2. CASE Has(d, k.key) /\ ~Has(e, k.key)
    <3>. DEFINE b == Lookup(d, k.key)
                rate == k.spec.rate
                max == max_tokens(k.spec)
    <3>1. k \in Checks /\ rate * LimiterTtl >= max
      BY DEF Refilled
    <3>2. rate \in Nat /\ max \in Nat
      BY <3>1, CheckSpec, SpecFacts
    <3>3. PlaceOf(d, k.key) \in DOMAIN d /\ b \in Buckets /\ b = d[PlaceOf(d, k.key)].val
      BY <1>1, <2>2, HasFacts DEF Lookup
    <3>4. ~(now - b.updated_at <= LimiterTtl)
      BY <1>2, <2>2, <3>3
    <3>5. b.updated_at \in Nat /\ b.tokens \in Nat /\ LimiterTtl \in Nat
      BY <3>3, LimiterConstants, SMT DEF Buckets
    <3>6. n + b.tokens <= max + rate * b.updated_at
      BY <1>4, <2>2 DEF Budget
    <3>. HIDE DEF b, rate, max
    <3>7. LimiterTtl + b.updated_at \in Nat /\ LimiterTtl + b.updated_at <= now
      BY <3>4, <3>5, SMT
    <3>8. /\ rate * (LimiterTtl + b.updated_at) <= rate * now
          /\ rate * (LimiterTtl + b.updated_at) = rate * LimiterTtl + rate * b.updated_at
          /\ rate * LimiterTtl \in Nat /\ rate * b.updated_at \in Nat /\ rate * now \in Nat
      BY <3>2, <3>5, <3>7, Times
    <3>9. n <= rate * now
      BY <3>1, <3>2, <3>5, <3>6, <3>8, SMT
    <3>. QED BY <2>2, <3>9 DEF Budget, rate
  <2>. QED BY <2>1, <2>2
<1>. QED BY <1>3, <1>4 DEF e

\* The bucket that a check draws on, new and full when there is none.
LEMMA BucketAt ==
    ASSUME NEW k \in Checks, NEW d, NEW now \in Nat, BucketsKept(d, now)
    PROVE  LET new == [tokens |-> max_tokens(k.spec), updated_at |-> now]
               b == IF Has(d, k.key) THEN from_state(k.spec, Lookup(d, k.key)) ELSE new
           IN
           /\ b \in Buckets /\ b.tokens <= max_tokens(k.spec) /\ b.updated_at <= now
           /\ b = IF Has(d, k.key) THEN Lookup(d, k.key) ELSE new
<1>. DEFINE new == [tokens |-> max_tokens(k.spec), updated_at |-> now]
<1>1. max_tokens(k.spec) \in Nat
  BY CheckSpec, SpecFacts
<1>2. CASE Has(d, k.key)
  <2>. DEFINE x == Lookup(d, k.key)
  <2>1. x \in Buckets /\ x.tokens <= max_tokens(k.spec) /\ x.updated_at <= now
    BY <1>2, HasFacts DEF BucketsKept
  <2>. HIDE DEF x
  <2>2. x = [tokens |-> x.tokens, updated_at |-> x.updated_at]
    BY <2>1, SMT DEF Buckets
  <2>3. from_state(k.spec, x) = x
    BY <2>1, <2>2, SMT DEF from_state, Buckets
  <2>. QED BY <1>2, <2>1, <2>3 DEF x
<1>3. CASE ~Has(d, k.key)
  <2>1. new \in Buckets /\ new.tokens <= max_tokens(k.spec) /\ new.updated_at <= now
    BY <1>1, SMT DEF Buckets
  <2>. QED BY <1>3, <2>1
<1>. QED BY <1>2, <1>3

\* The cost of a call that a bucket allows.
Taken(r) == IF r.allowed THEN Cost ELSE 0

LEMMA ConsumeKeeps ==
    ASSUME NEW k \in Checks, NEW d, NEW now \in Nat, BucketsKept(d, now)
    PROVE  LET r == limiter_consume(d, k.key, k.spec, Cost, now) IN
           /\ BucketsKept(r.buckets, now)
           /\ \A l \in Refilled, n \in Nat : Budget(d, l, n, now) =>
                Budget(r.buckets, l, n + (IF l.key = k.key THEN Taken(r.result) ELSE 0), now)
<1>. DEFINE e == EvictExpired(d, {i \in DOMAIN d : now - d[i].val.updated_at <= LimiterTtl})
            new == [tokens |-> max_tokens(k.spec), updated_at |-> now]
            b == IF Has(e, k.key) THEN from_state(k.spec, Lookup(e, k.key)) ELSE new
            c == bucket_consume(k.spec, b, Cost, now)
            t == Touch(e, k.key, c.bucket)
            f == EvictLru(t, LimiterMaxKeys)
            r == limiter_consume(d, k.key, k.spec, Cost, now)
<1>1. /\ BucketsKept(e, now)
      /\ \A l \in Refilled, n \in Nat : Budget(d, l, n, now) => Budget(e, l, n, now)
  BY EvictExpiredKeeps
<1>2. r.buckets = f /\ r.result = c.result
  BY DEF limiter_consume
<1>. HIDE DEF e, r
<1>3. k.spec \in Specs /\ k.key \in CheckKeys /\ max_tokens(k.spec) \in Nat /\ k.spec.rate \in Nat
  BY CheckSpec, SpecFacts
<1>4. e \in LruMaps(CheckKeys, Buckets)
  BY <1>1 DEF BucketsKept
<1>5. /\ b \in Buckets /\ b.tokens <= max_tokens(k.spec) /\ b.updated_at <= now
      /\ b = IF Has(e, k.key) THEN Lookup(e, k.key) ELSE new
  BY <1>1, BucketAt
<1>. HIDE DEF b
<1>6. Cost \in Nat
  BY LimiterConstants
<1>7. /\ c.bucket \in Buckets /\ c.bucket.updated_at = now
      /\ c.bucket.tokens <= max_tokens(k.spec)
      /\ c.bucket.tokens + Taken(c.result) <= b.tokens + k.spec.rate * (now - b.updated_at)
  BY <1>3, <1>5, <1>6, ConsumeFacts, SMT DEF Taken
<1>. HIDE DEF c
<1>8. /\ t \in LruMaps(CheckKeys, Buckets)
      /\ Has(t, k.key) /\ Lookup(t, k.key) = c.bucket
      /\ \A j : j # k.key => (Has(t, j) <=> Has(e, j))
      /\ \A j : j # k.key /\ Has(e, j) => Lookup(t, j) = Lookup(e, j)
  BY <1>3, <1>4, <1>7, TouchMap, SMT
<1>. HIDE DEF t
<1>9. LimiterMaxKeys \in Nat \ {0}
  BY LimiterConstants
<1>10. /\ f \in LruMaps(CheckKeys, Buckets)
       /\ \A j : Has(f, j) => Has(t, j) /\ Lookup(f, j) = Lookup(t, j)
       /\ Len(t) <= LimiterMaxKeys => f = t
  BY <1>8, <1>9, EvictLruMap
<1>. HIDE DEF f
<1>11. BucketsKept(f, now)
  <2>1. ASSUME NEW l \in Checks, Has(f, l.key)
        PROVE  Lookup(f, l.key).tokens <= max_tokens(l.spec) /\ Lookup(f, l.key).updated_at <= now
    <3>1. Has(t, l.key) /\ Lookup(f, l.key) = Lookup(t, l.key)
      BY <1>10, <2>1
    <3>2. CASE l.key = k.key
      <4>1. l = k
        BY <3>2, OneSpec
      <4>2. now <= now
        BY SMT
      <4>. QED BY <1>7, <1>8, <3>1, <4>1, <4>2
    <3>3. CASE l.key # k.key
      BY <1>1, <1>8, <3>1, <3>3 DEF BucketsKept
    <3>. QED BY <3>2, <3>3
  <2>. QED BY <1>10, <2>1 DEF BucketsKept
<1>12. ASSUME NEW l \in Refilled, NEW n \in Nat, Budget(d, l, n, now)
       PROVE  Budget(f, l, n + (IF l.key = k.key THEN Taken(c.result) ELSE 0), now)
  <2>1. Cardinality(CheckKeys) <= LimiterMaxKeys /\ l \in Checks
    BY DEF Refilled
  <2>2. f = t
    <3>1. Len(t) \in Nat /\ Len(t) <= Cardinality(CheckKeys)
      BY <1>8, CheckKeysFinite, MapSize
    <3>2. Cardinality(CheckKeys) \in Nat
      BY CheckKeysFinite, FS_CardinalityType
    <3>3. Len(t) <= LimiterMaxKeys
      BY <1>9, <2>1, <3>1, <3>2, SMT
    <3>. QED BY <1>10, <3>3
  <2>3. Budget(e, l, n, now)
    BY <1>1, <1>12
  <2>4. CASE l.key # k.key
    <3>1. n + 0 = n
      BY SMT
    <3>. QED BY <1>8, <2>2, <2>3, <2>4, <3>1 DEF Budget
  <2>5. CASE l.key = k.key
    <3>1. l = k
      BY <2>1, <2>5, OneSpec
    <3>. DEFINE rate == k.spec.rate
                max == max_tokens(k.spec)
                took == Taken(c.result)
    <3>2. n + b.tokens <= max + rate * b.updated_at
      <4>1. CASE Has(e, k.key)
        BY <1>5, <2>3, <3>1, <4>1 DEF Budget
      <4>2. CASE ~Has(e, k.key)
        <5>1. n <= rate * now
          BY <2>3, <3>1, <4>2 DEF Budget
        <5>2. b.tokens = max /\ b.updated_at = now
          BY <1>5, <4>2
        <5>3. rate * now \in Nat
          BY <1>3, Times
        <5>. QED BY <1>3, <5>1, <5>2, <5>3, SMT
      <4>. QED BY <4>1, <4>2
    <3>3. /\ took \in Nat /\ c.bucket.tokens \in Nat /\ b.tokens \in Nat /\ b.updated_at \in Nat
          /\ now - b.updated_at \in Nat /\ b.updated_at + (now - b.updated_at) = now
      BY <1>5, <1>6, <1>7, SMT DEF Taken, Buckets
    <3>4. c.bucket.tokens + took <= b.tokens + rate * (now - b.updated_at)
      BY <1>7
    <3>. HIDE DEF rate, max, took
    <3>5. /\ rate * now = rate * b.updated_at + rate * (now - b.updated_at)
          /\ rate * now \in Nat /\ rate * b.updated_at \in Nat /\ rate * (now - b.updated_at) \in Nat
      <4>1. rate \in Nat
        BY <1>3 DEF rate
      <4>2. rate * (b.updated_at + (now - b.updated_at)) = rate * b.updated_at + rate * (now - b.updated_at)
        BY <3>3, <4>1, Times
      <4>3. rate * now \in Nat /\ rate * b.updated_at \in Nat /\ rate * (now - b.updated_at) \in Nat
        BY <3>3, <4>1, Times
      <4>. QED BY <3>3, <4>2, <4>3
    <3>6. n + took + c.bucket.tokens <= max + rate * now
      BY <1>3, <3>2, <3>3, <3>4, <3>5, SMT DEF max
    <3>. QED BY <1>7, <1>8, <2>2, <2>5, <3>1, <3>6 DEF Budget, rate, max, took
  <2>. QED BY <2>4, <2>5
<1>. QED BY <1>2, <1>11, <1>12 DEF r

KeysOf(results) == {r.key : r \in results}

\* What the results of one evaluation have taken from the bucket of a key.
Drawn(results, key) == IF key \in Allowed(results) THEN Cost ELSE 0

LEMMA ChargeKeeps ==
    ASSUME NEW c \in Callers, NEW i \in 1..3, NEW before, NEW now \in Nat,
           BucketsKept(before.buckets, now),
           resolve_checks(Call[c])[i].key \notin KeysOf(before.results)
    PROVE  LET k == resolve_checks(Call[c])[i]
               after == Charge(before, k, now)
           IN
           /\ BucketsKept(after.buckets, now)
           /\ KeysOf(after.results) \subseteq KeysOf(before.results) \cup {k.key}
           /\ \A l \in Refilled, n \in Nat :
                Budget(before.buckets, l, n + Drawn(before.results, l.key), now)
                => Budget(after.buckets, l, n + Drawn(after.results, l.key), now)
<1>. DEFINE k == resolve_checks(Call[c])[i]
            after == Charge(before, k, now)
<1>1. k.spec # NoSpec => k \in Checks
  BY ChecksOf
<1>. HIDE DEF k
<1>2. CASE k.spec = NoSpec
  <2>1. after = before
    BY <1>2 DEF Charge
  <2>. QED BY <2>1 DEF k
<1>3. CASE k.spec # NoSpec
  <2>. DEFINE r == limiter_consume(before.buckets, k.key, k.spec, Cost, now)
              x == [key |-> k.key, result |-> r.result]
  <2>1. after = [buckets |-> r.buckets, results |-> before.results \cup {x}]
    BY <1>3 DEF Charge
  <2>2. x.key = k.key /\ x.result = r.result
    OBVIOUS
  <2>. HIDE DEF x
  <2>3. after.buckets = r.buckets /\ after.results = before.results \cup {x}
    BY <2>1, SMT
  <2>4. /\ BucketsKept(r.buckets, now)
        /\ \A l \in Refilled, n \in Nat : Budget(before.buckets, l, n, now) =>
             Budget(r.buckets, l, n + (IF l.key = k.key THEN Taken(r.result) ELSE 0), now)
    BY <1>1, <1>3, ConsumeKeeps
  <2>. HIDE DEF r, after
  <2>5. KeysOf(after.results) \subseteq KeysOf(before.results) \cup {k.key}
    BY <2>2, <2>3 DEF KeysOf
  <2>6. k.key \notin Allowed(before.results)
    BY DEF KeysOf, Allowed, k
  <2>7. Allowed(after.results) = Allowed(before.results) \cup (IF r.result.allowed THEN {k.key} ELSE {})
    BY <2>2, <2>3 DEF Allowed
  <2>8. ASSUME NEW l \in Refilled, NEW n \in Nat,
               Budget(before.buckets, l, n + Drawn(before.results, l.key), now)
        PROVE  Budget(after.buckets, l, n + Drawn(after.results, l.key), now)
    <3>. DEFINE took == IF l.key = k.key THEN Taken(r.result) ELSE 0
                first == Drawn(before.results, l.key)
    <3>1. first \in Nat /\ took \in Nat /\ Drawn(after.results, l.key) \in Nat /\ n + first \in Nat
      BY LimiterConstants, SMT DEF Drawn, Taken
    <3>2. Drawn(after.results, l.key) = first + took
      <4>1. CASE l.key = k.key
        BY <2>6, <2>7, <4>1, LimiterConstants, SMT DEF Drawn, Taken
      <4>2. CASE l.key # k.key
        <5>1. l.key \in Allowed(after.results) <=> l.key \in Allowed(before.results)
          BY <2>7, <4>2
        <5>. QED BY <4>2, <5>1, LimiterConstants, SMT DEF Drawn
      <4>. QED BY <4>1, <4>2
    <3>3. (n + first) + took = n + Drawn(after.results, l.key)
      <4>. HIDE DEF first, took
      <4>. QED BY <3>1, <3>2, SMT
    <3>4. Budget(r.buckets, l, (n + first) + took, now)
      BY <2>4, <2>8, <3>1
    <3>. QED BY <2>3, <3>3, <3>4
  <2>. QED BY <2>3, <2>4, <2>5, <2>8 DEF k, after
<1>. QED BY <1>2, <1>3

LEMMA ChargedKeeps ==
    ASSUME NEW c \in Callers, NEW d, NEW now \in Nat, BucketsKept(d, now)
    PROVE  LET after == Charged(d, resolve_checks(Call[c]), now) IN
           /\ BucketsKept(after.buckets, now)
           /\ \A l \in Refilled, n \in Nat :
                Budget(d, l, n, now) => Budget(after.buckets, l, n + Drawn(after.results, l.key), now)
<1>. DEFINE s == resolve_checks(Call[c])
            none == [buckets |-> d, results |-> {}]
            a == Charge(none, s[1], now)
            b == Charge(a, s[2], now)
            after == Charge(b, s[3], now)
            More(x, y) == \A l \in Refilled, n \in Nat :
                            Budget(x.buckets, l, n + Drawn(x.results, l.key), now)
                            => Budget(y.buckets, l, n + Drawn(y.results, l.key), now)
<1>1. none.buckets = d /\ none.results = {}
  OBVIOUS
<1>2. 1 \in 1..3 /\ 2 \in 1..3 /\ 3 \in 1..3
  BY SMT
<1>3. s[1].key # s[2].key /\ s[1].key # s[3].key /\ s[2].key # s[3].key
  <2>1. s[1].key[1] = "tool" /\ s[2].key[1] = "destination" /\ s[3].key[1] = "run"
    BY <1>2, ChecksOf, SMT
  <2>. QED BY <2>1
<1>4. Charged(d, s, now) = after
  BY DEF Charged
<1>. HIDE DEF none
<1>5. BucketsKept(a.buckets, now) /\ KeysOf(a.results) \subseteq {s[1].key} /\ More(none, a)
  <2>1. KeysOf(none.results) = {}
    BY <1>1 DEF KeysOf
  <2>. QED BY <1>1, <1>2, <2>1, ChargeKeeps
<1>. HIDE DEF a
<1>6. BucketsKept(b.buckets, now) /\ KeysOf(b.results) \subseteq {s[1].key, s[2].key} /\ More(a, b)
  <2>1. s[2].key \notin KeysOf(a.results)
    BY <1>3, <1>5
  <2>2. BucketsKept(b.buckets, now) /\ KeysOf(b.results) \subseteq KeysOf(a.results) \cup {s[2].key} /\ More(a, b)
    BY <1>2, <1>5, <2>1, ChargeKeeps
  <2>. QED BY <1>5, <2>2
<1>. HIDE DEF b
<1>7. BucketsKept(after.buckets, now) /\ More(b, after)
  <2>1. s[3].key \notin KeysOf(b.results)
    BY <1>3, <1>6
  <2>. QED BY <1>2, <1>6, <2>1, ChargeKeeps
<1>. HIDE DEF after
<1>8. ASSUME NEW l \in Refilled, NEW n \in Nat, Budget(d, l, n, now)
      PROVE  Budget(after.buckets, l, n + Drawn(after.results, l.key), now)
  <2>1. n + Drawn(none.results, l.key) = n
    <3>1. Drawn(none.results, l.key) = 0
      BY <1>1 DEF Drawn, Allowed
    <3>. QED BY <3>1, SMT
  <2>2. Budget(none.buckets, l, n + Drawn(none.results, l.key), now)
    BY <1>1, <1>8, <2>1
  <2>. QED BY <1>5, <1>6, <1>7, <2>2
<1>. QED BY <1>4, <1>7, <1>8

----------------------------------------------------------------------------
(* The rates hold                                                            *)

RateInv ==
    /\ clock \in Nat
    /\ BucketsKept(buckets, clock)
    /\ spent \in [RefilledKeys -> Nat]
    /\ \A k \in Refilled : Budget(buckets, k, spent[k.key], clock)

LEMMA RefilledKey == ASSUME NEW k \in Refilled PROVE k.key \in RefilledKeys /\ k \in Checks
  BY DEF RefilledKeys, Refilled

LEMMA EvaluateKeepsRates ==
    ASSUME RateInv, NEW c \in Callers, NEW approved, EvaluateGuards(c, Evaluate(c, approved)),
           UNCHANGED clock
    PROVE  RateInv'
<1>. DEFINE e == Evaluate(c, approved)
            after == Charged(buckets, resolve_checks(Call[c]), clock)
            denied == policy_check(c, approved) = "DENY"
<1>1. /\ e.buckets = IF denied THEN buckets ELSE after.buckets
      /\ e.charged = IF denied THEN {} ELSE Allowed(after.results)
  BY DEF Evaluate, Combined, rate_limit_check, Limited, policy_consume
<1>. HIDE DEF e, after, denied
<1>2. /\ BucketsKept(after.buckets, clock)
      /\ \A l \in Refilled, n \in Nat :
           Budget(buckets, l, n, clock) => Budget(after.buckets, l, n + Drawn(after.results, l.key), clock)
  BY ChargedKeeps DEF RateInv, after
<1>3. /\ buckets' = e.buckets /\ clock' = clock
      /\ spent' = [k \in RefilledKeys |-> spent[k] + (IF k \in e.charged THEN Cost ELSE 0)]
  BY DEF EvaluateGuards, e
<1>4. spent' \in [RefilledKeys -> Nat]
  BY <1>3, LimiterConstants, SMT DEF RateInv
<1>5. BucketsKept(buckets', clock')
  BY <1>1, <1>2, <1>3 DEF RateInv
<1>6. ASSUME NEW k \in Refilled
      PROVE  Budget(buckets', k, spent'[k.key], clock')
  <2>1. k.key \in RefilledKeys /\ spent[k.key] \in Nat /\ Budget(buckets, k, spent[k.key], clock)
    BY RefilledKey DEF RateInv
  <2>2. CASE denied
    <3>1. spent'[k.key] = spent[k.key]
      BY <1>1, <1>3, <2>1, <2>2, SMT
    <3>. QED BY <1>1, <1>3, <2>1, <2>2, <3>1
  <2>3. CASE ~denied
    <3>1. spent'[k.key] = spent[k.key] + Drawn(after.results, k.key)
      BY <1>1, <1>3, <2>1, <2>3 DEF Drawn
    <3>2. Budget(after.buckets, k, spent[k.key] + Drawn(after.results, k.key), clock)
      BY <1>2, <2>1
    <3>. QED BY <1>1, <1>3, <2>3, <3>1, <3>2
  <2>. QED BY <2>2, <2>3
<1>. QED BY <1>3, <1>4, <1>5, <1>6 DEF RateInv

LEMMA RateInvInit == GuardsInit => RateInv
<1>. SUFFICES ASSUME GuardsInit PROVE RateInv
  OBVIOUS
<1>1. clock \in Nat /\ clock = 0
  BY SMT DEF GuardsInit
<1>2. buckets = <<>> /\ buckets \in LruMaps(CheckKeys, Buckets) /\ \A k : ~Has(buckets, k)
  BY SMT DEF GuardsInit, LruMaps, Has
<1>3. spent = [k \in RefilledKeys |-> 0] /\ 0 \in Nat
  BY SMT DEF GuardsInit
<1>4. ASSUME NEW k \in Refilled PROVE Budget(buckets, k, spent[k.key], clock)
  <2>1. spent[k.key] = 0 /\ k \in Checks
    BY <1>3, RefilledKey
  <2>2. k.spec.rate \in Nat
    BY <2>1, CheckSpec, SpecFacts
  <2>3. 0 <= k.spec.rate * clock
    BY <1>1, <2>2, Times, SMT
  <2>. QED BY <1>2, <2>1, <2>3 DEF Budget
<1>. QED BY <1>1, <1>2, <1>3, <1>4 DEF RateInv, BucketsKept

LEMMA TickKeepsRates == ASSUME RateInv, Tick PROVE RateInv'
<1>1. clock \in Nat /\ clock' = clock + 1 /\ buckets' = buckets /\ spent' = spent
  BY DEF RateInv, Tick, history
<1>2. clock' \in Nat /\ clock <= clock' /\ \A t \in Nat : t <= clock => t <= clock'
  BY <1>1, SMT
<1>3. BucketsKept(buckets, clock')
  <2>1. ASSUME NEW k \in Checks, Has(buckets, k.key)
        PROVE  /\ Lookup(buckets, k.key).tokens <= max_tokens(k.spec)
               /\ Lookup(buckets, k.key).updated_at <= clock'
    <3>. DEFINE b == Lookup(buckets, k.key)
    <3>1. b \in Buckets /\ b.tokens <= max_tokens(k.spec) /\ b.updated_at <= clock
      BY <2>1, HasFacts DEF RateInv, BucketsKept
    <3>2. b.updated_at \in Nat
      BY <3>1, SMT DEF Buckets
    <3>. QED BY <1>2, <3>1, <3>2
  <2>. QED BY <2>1 DEF RateInv, BucketsKept
<1>4. ASSUME NEW k \in Refilled PROVE Budget(buckets, k, spent[k.key], clock')
  <2>1. Budget(buckets, k, spent[k.key], clock) /\ spent[k.key] \in Nat /\ k \in Checks
    BY RefilledKey DEF RateInv
  <2>2. k.spec.rate \in Nat
    BY <2>1, CheckSpec, SpecFacts
  <2>3. /\ k.spec.rate * clock <= k.spec.rate * clock'
        /\ k.spec.rate * clock \in Nat /\ k.spec.rate * clock' \in Nat
    BY <1>1, <1>2, <2>2, Times
  <2>4. spent[k.key] <= k.spec.rate * clock => spent[k.key] <= k.spec.rate * clock'
    BY <2>1, <2>3, SMT
  <2>. QED BY <2>1, <2>4 DEF Budget
<1>. QED BY <1>1, <1>2, <1>3, <1>4 DEF RateInv

LEMMA RateInvStep == ASSUME RateInv, [GuardsNext]_guards_vars PROVE RateInv'
<1>1. ASSUME UNCHANGED <<clock, buckets, spent>> PROVE RateInv'
  BY <1>1 DEF RateInv
<1>2. ASSUME NEW c \in Callers,
             \/ UseCachedSuccess(c) \/ CheckGuards(c) \/ CheckGuardsApproved(c)
      PROVE  RateInv'
  <2>1. PICK approved : EvaluateGuards(c, Evaluate(c, approved)) /\ UNCHANGED clock
    BY <1>2 DEF UseCachedSuccess, CheckGuards, CheckGuardsApproved
  <2>. QED BY <2>1, EvaluateKeepsRates
<1>3. ASSUME NEW c \in Callers,
             \/ Begin(c) \/ acquire(c) \/ CancelWait(c) \/ FindApproval(c)
             \/ (\E r \in {"ok", "failed", "raised"} : RunTool(c, r))
             \/ release(c) \/ RecordResult(c)
      PROVE  UNCHANGED <<clock, buckets, spent>>
  BY <1>3 DEF Begin, acquire, CancelWait, FindApproval, RunTool, release, RecordResult, history
<1>4. CASE UNCHANGED guards_vars
  BY <1>1, <1>4 DEF guards_vars, history
<1>5. CASE Tick
  BY <1>5, TickKeepsRates
<1>. QED BY <1>1, <1>2, <1>3, <1>4, <1>5 DEF GuardsNext

\* A bucket of the rate limiter that is full again before it is forgotten hands out at most its
\* maximum and what was refilled since the start, for every number of callers, every
\* configuration of rates and every length of the run (token_bucket.py, in_memory.py, policy.py).
THEOREM TokensAreBounded == GuardsSpec => []RateBound
<1>1. RateInv => RateBound
  <2>. SUFFICES ASSUME RateInv, NEW k \in Refilled
                PROVE  spent[k.key] <= max_tokens(k.spec) + k.spec.rate * clock
    BY DEF RateBound
  <2>. DEFINE max == max_tokens(k.spec)
              rate == k.spec.rate
              b == Lookup(buckets, k.key)
  <2>1. /\ Budget(buckets, k, spent[k.key], clock) /\ spent[k.key] \in Nat /\ clock \in Nat
        /\ k \in Checks /\ BucketsKept(buckets, clock)
    BY RefilledKey DEF RateInv
  <2>2. max \in Nat /\ rate \in Nat
    BY <2>1, CheckSpec, SpecFacts
  <2>3. CASE Has(buckets, k.key)
    <3>1. b \in Buckets /\ b.updated_at <= clock /\ spent[k.key] + b.tokens <= max + rate * b.updated_at
      BY <2>1, <2>3, HasFacts DEF BucketsKept, Budget
    <3>2. b.tokens \in Nat /\ b.updated_at \in Nat
      BY <3>1, SMT DEF Buckets
    <3>. HIDE DEF max, rate, b
    <3>3. rate * b.updated_at <= rate * clock /\ rate * b.updated_at \in Nat /\ rate * clock \in Nat
      BY <2>1, <2>2, <3>1, <3>2, Times
    <3>4. spent[k.key] <= max + rate * clock
      BY <2>1, <2>2, <3>1, <3>2, <3>3, SMT
    <3>. QED BY <3>4 DEF max, rate
  <2>4. CASE ~Has(buckets, k.key)
    <3>1. spent[k.key] <= rate * clock
      BY <2>1, <2>4 DEF Budget
    <3>. HIDE DEF max, rate
    <3>2. rate * clock \in Nat
      BY <2>1, <2>2, Times
    <3>3. spent[k.key] <= max + rate * clock
      BY <2>1, <2>2, <3>1, <3>2, SMT
    <3>. QED BY <3>3 DEF max, rate
  <2>. QED BY <2>3, <2>4
<1>. QED BY <1>1, RateInvInit, RateInvStep, PTL DEF GuardsSpec

----------------------------------------------------------------------------
(* The wait that a refusal names                                             *)

LEMMA CeilDivFacts ==
    ASSUME NEW n \in Nat \ {0}, NEW d \in Nat \ {0}
    PROVE  /\ CeilDiv(n, d) \in Nat \ {0}
           /\ n <= CeilDiv(n, d) * d
           /\ (CeilDiv(n, d) - 1) * d < n
<1>. DEFINE m == n + d - 1
            q == m \div d
<1>1. m \in Nat
  BY SMT
<1>2. q \in Nat /\ q * d <= m /\ m < q * d + d
  BY <1>1, SMT
<1>. HIDE DEF q
<1>3. q * d \in Nat /\ n <= q * d
  BY <1>2, SMT
<1>4. q # 0
  BY <1>3, SMT
<1>5. (q - 1) * d = q * d - d
  BY <1>2, SMT
<1>6. (q - 1) * d < n
  BY <1>2, <1>3, <1>5, SMT
<1>. QED BY <1>2, <1>3, <1>4, <1>6 DEF CeilDiv, q

\* What refill leaves in a bucket.
LEMMA RefillFacts ==
    ASSUME NEW spec \in Specs, NEW b \in Buckets, NEW now \in Nat,
           b.tokens <= max_tokens(spec), b.updated_at <= now
    PROVE  LET full == b.tokens + (now - b.updated_at) * spec.rate IN
           /\ full \in Nat
           /\ refill(spec, b, now) = [tokens |-> IF full <= max_tokens(spec) THEN full ELSE max_tokens(spec),
                                      updated_at |-> now]
<1>. DEFINE max == max_tokens(spec)
            gain == (now - b.updated_at) * spec.rate
<1>1. /\ max \in Nat /\ spec.rate \in Nat /\ b.tokens \in Nat /\ b.updated_at \in Nat
  BY SpecFacts, SMT DEF Buckets
<1>2. now - b.updated_at \in Nat
  BY <1>1, SMT
<1>3. gain \in Nat
  <2>1. spec.rate * (now - b.updated_at) \in Nat
    BY <1>1, <1>2, Times
  <2>. QED BY <1>1, <1>2, <2>1, SMT
<1>4. CASE now <= b.updated_at
  <2>1. now = b.updated_at
    BY <1>1, <1>4, SMT
  <2>2. gain = 0
    BY <1>1, <2>1, SMT
  <2>3. b = [tokens |-> b.tokens, updated_at |-> now]
    BY <2>1, SMT DEF Buckets
  <2>4. refill(spec, b, now) = [tokens |-> b.tokens, updated_at |-> now]
    BY <1>4, <2>3 DEF refill
  <2>. HIDE DEF gain
  <2>5. b.tokens + gain = b.tokens /\ b.tokens + gain \in Nat /\ b.tokens + gain <= max
    BY <1>1, <2>2, SMT
  <2>. QED BY <2>4, <2>5 DEF gain
<1>5. CASE ~(now <= b.updated_at)
  <2>1. refill(spec, b, now) = [tokens |-> IF b.tokens + gain <= max THEN b.tokens + gain ELSE max,
                                updated_at |-> now]
    BY <1>5 DEF refill
  <2>. HIDE DEF gain
  <2>2. b.tokens + gain \in Nat
    BY <1>1, <1>3, SMT
  <2>. QED BY <2>1, <2>2 DEF gain
<1>. QED BY <1>4, <1>5

\* TokenBucket.consume: t tokens are there, and Cost is taken when t is enough.
LEMMA ConsumeIs ==
    ASSUME NEW spec \in Specs, NEW b \in Buckets, NEW now \in Nat,
           b.tokens <= max_tokens(spec), b.updated_at <= now
    PROVE  LET full == b.tokens + (now - b.updated_at) * spec.rate
               t == IF full <= max_tokens(spec) THEN full ELSE max_tokens(spec)
               r == bucket_consume(spec, b, Cost, now)
           IN
           /\ full \in Nat /\ t \in Nat
           /\ r.result.allowed <=> Cost <= t
           /\ r = [bucket |-> r.bucket, result |-> r.result]
           /\ Cost <= t =>
                r.bucket = [tokens |-> t - Cost, updated_at |-> now] /\ r.result = Result(TRUE, 0)
           /\ ~(Cost <= t) => r.bucket = [tokens |-> t, updated_at |-> now]
           /\ ~(Cost <= t) /\ (Cost > max_tokens(spec) \/ spec.rate <= 0) => r.result = Result(FALSE, NoRetry)
           /\ ~(Cost <= t) /\ ~(Cost > max_tokens(spec) \/ spec.rate <= 0) =>
                r.result = Result(FALSE, CeilDiv(Cost - t, spec.rate))
<1>. DEFINE full == b.tokens + (now - b.updated_at) * spec.rate
            max == max_tokens(spec)
            t == IF full <= max THEN full ELSE max
            c == refill(spec, b, now)
            r == bucket_consume(spec, b, Cost, now)
<1>1. full \in Nat /\ c = [tokens |-> t, updated_at |-> now]
  BY RefillFacts
<1>2. max \in Nat /\ spec.rate \in Nat /\ Cost \in Nat
  BY SpecFacts, LimiterConstants
<1>3. t \in Nat /\ t <= max
  <2>. HIDE DEF full, max
  <2>. QED BY <1>1, <1>2, SMT
<1>4. r = CASE Cost > max -> [bucket |-> c, result |-> Result(FALSE, NoRetry)]
            [] Cost <= max /\ Cost <= c.tokens ->
                 [bucket |-> [c EXCEPT !.tokens = @ - Cost], result |-> Result(TRUE, 0)]
            [] OTHER ->
                 [bucket |-> c, result |-> Result(FALSE, IF spec.rate <= 0 THEN NoRetry
                                                        ELSE CeilDiv(Cost - c.tokens, spec.rate))]
  BY DEF bucket_consume
<1>5. \A x, y : Result(x, y).allowed = x
  BY SMT DEF Result
<1>. HIDE DEF c, t, max, r, full
<1>6. c.tokens = t /\ [c EXCEPT !.tokens = @ - Cost] = [tokens |-> t - Cost, updated_at |-> now]
  BY <1>1, SMT
<1>7. CASE Cost <= t
  <2>1. Cost <= max /\ ~(Cost > max)
    BY <1>2, <1>3, <1>7, SMT
  <2>2. r = [bucket |-> [tokens |-> t - Cost, updated_at |-> now], result |-> Result(TRUE, 0)]
    BY <1>4, <1>6, <1>7, <2>1
  <2>. HIDE DEF Result
  <2>3. r.bucket = [tokens |-> t - Cost, updated_at |-> now] /\ r.result = Result(TRUE, 0)
    BY <2>2, SMT
  <2>. QED BY <1>1, <1>3, <1>5, <1>7, <2>2, <2>3 DEF t, full, max, r
<1>8. CASE ~(Cost <= t)
  <2>. DEFINE wait == IF Cost > max \/ spec.rate <= 0 THEN NoRetry ELSE CeilDiv(Cost - t, spec.rate)
  <2>1. r = [bucket |-> c, result |-> Result(FALSE, wait)]
    <3>1. CASE Cost > max
      <4>1. wait = NoRetry
        BY <3>1
      <4>. HIDE DEF wait
      <4>2. ~(Cost <= max)
        BY <1>2, <3>1, SMT
      <4>3. r = [bucket |-> c, result |-> Result(FALSE, NoRetry)]
        BY <1>4, <3>1, <4>2
      <4>. QED BY <4>1, <4>3
    <3>2. CASE ~(Cost > max)
      <4>1. wait = IF spec.rate <= 0 THEN NoRetry ELSE CeilDiv(Cost - t, spec.rate)
        BY <3>2
      <4>. HIDE DEF wait
      <4>. QED BY <1>4, <1>6, <1>8, <3>2, <4>1
    <3>. QED BY <3>1, <3>2
  <2>2. r.bucket = c /\ r.result = Result(FALSE, wait)
    BY <2>1
  <2>. QED BY <1>1, <1>3, <1>5, <1>8, <2>1, <2>2 DEF t, full, max, r
<1>. QED BY <1>7, <1>8

\* The Lua script is TokenBucket.consume on a bucket that is not overfull.
LEMMA LuaIsConsume ==
    ASSUME NEW spec \in Specs, NEW b \in Buckets, NEW now \in Nat,
           b.tokens <= max_tokens(spec), b.updated_at <= now
    PROVE  CONSUME_LUA(spec, b, Cost, now) = bucket_consume(spec, b, Cost, now)
<1>. DEFINE max == max_tokens(spec)
            rate == spec.rate
            filled == b.tokens + (now - b.updated_at) * rate
            t == IF filled <= max THEN filled ELSE max
            elapsed == IF now - b.updated_at < 0 THEN 0 ELSE now - b.updated_at
            lua == IF elapsed > 0 /\ rate > 0 /\ b.tokens + elapsed * rate > max
                   THEN max ELSE b.tokens + elapsed * rate
            ok == Cost <= max /\ Cost <= lua
            h == CONSUME_LUA(spec, b, Cost, now)
            r == bucket_consume(spec, b, Cost, now)
<1>1. /\ filled \in Nat /\ t \in Nat
      /\ r = [bucket |-> r.bucket, result |-> r.result]
      /\ Cost <= t => r.bucket = [tokens |-> t - Cost, updated_at |-> now] /\ r.result = Result(TRUE, 0)
      /\ ~(Cost <= t) => r.bucket = [tokens |-> t, updated_at |-> now]
      /\ ~(Cost <= t) /\ (Cost > max \/ rate <= 0) => r.result = Result(FALSE, NoRetry)
      /\ ~(Cost <= t) /\ ~(Cost > max \/ rate <= 0) => r.result = Result(FALSE, CeilDiv(Cost - t, rate))
  BY ConsumeIs
<1>2. /\ max \in Nat /\ rate \in Nat /\ Cost \in Nat /\ b.tokens \in Nat /\ b.updated_at \in Nat
      /\ b.tokens <= max /\ b.updated_at <= now
  BY SpecFacts, LimiterConstants, SMT DEF Buckets
<1>3. lua = t
  <2>1. elapsed = now - b.updated_at /\ elapsed \in Nat
    BY <1>2, SMT
  <2>. DEFINE gain == elapsed * rate
  <2>2. filled = b.tokens + gain /\ gain \in Nat
    <3>1. rate * elapsed \in Nat
      BY <1>2, <2>1, Times
    <3>2. gain \in Nat
      BY <1>2, <2>1, <3>1, SMT
    <3>. QED BY <2>1, <3>2
  <2>3. elapsed = 0 \/ rate = 0 => gain = 0
    BY <1>2, <2>1, SMT
  <2>. HIDE DEF gain, max, rate, elapsed, filled
  <2>4. lua = IF elapsed > 0 /\ rate > 0 /\ b.tokens + gain > max THEN max ELSE b.tokens + gain
    BY DEF gain
  <2>. HIDE DEF lua
  <2>. QED BY <1>2, <2>1, <2>2, <2>3, <2>4, SMT
<1>4. h = [bucket |-> [tokens |-> IF ok THEN lua - Cost ELSE lua, updated_at |-> now],
           result |-> Result(ok, CASE ok -> 0
                                   [] ~ok /\ (Cost > max \/ rate <= 0) -> NoRetry
                                   [] OTHER -> CeilDiv(Cost - lua, rate))]
  BY DEF CONSUME_LUA
<1>. HIDE DEF lua, max, rate, filled, h, r
<1>5. ok = (Cost <= t)
  BY <1>1, <1>2, <1>3, SMT DEF t
<1>. HIDE DEF ok, t
<1>6. CASE Cost <= t
  <2>1. ok = TRUE
    BY <1>5, <1>6
  <2>2. h = [bucket |-> [tokens |-> t - Cost, updated_at |-> now], result |-> Result(TRUE, 0)]
    BY <1>3, <1>4, <2>1
  <2>. QED BY <1>1, <1>6, <2>2 DEF h, r
<1>7. CASE ~(Cost <= t)
  <2>1. ok = FALSE
    <3>1. ok \in BOOLEAN
      BY DEF ok
    <3>2. ~ok
      BY <1>5, <1>7
    <3>. QED BY <3>1, <3>2
  <2>2. h.bucket = [tokens |-> t, updated_at |-> now] /\ h = [bucket |-> h.bucket, result |-> h.result]
    <3>. DEFINE lost == IF ok THEN lua - Cost ELSE lua
                why == Result(ok, CASE ok -> 0
                                    [] ~ok /\ (Cost > max \/ rate <= 0) -> NoRetry
                                    [] OTHER -> CeilDiv(Cost - lua, rate))
    <3>1. lost = t
      BY <1>3, <2>1
    <3>2. h = [bucket |-> [tokens |-> lost, updated_at |-> now], result |-> why]
      BY <1>4
    <3>. HIDE DEF lost, why
    <3>. QED BY <3>1, <3>2
  <2>3. CASE Cost > max \/ rate <= 0
    <3>1. h.result = Result(FALSE, NoRetry)
      BY <1>4, <2>1, <2>3
    <3>. QED BY <1>1, <1>7, <2>2, <2>3, <3>1 DEF h, r
  <2>4. CASE ~(Cost > max \/ rate <= 0)
    <3>1. h.result = Result(FALSE, CeilDiv(Cost - t, rate))
      BY <1>3, <1>4, <2>1, <2>4
    <3>. QED BY <1>1, <1>7, <2>2, <2>4, <3>1 DEF h, r
  <2>. QED BY <2>3, <2>4
<1>. QED BY <1>6, <1>7 DEF h, r

\* A bucket that refuses a call now allows it after CeilDiv ticks, and not a tick earlier.
LEMMA WaitIsExact ==
    ASSUME NEW spec \in Specs, NEW b \in Buckets, NEW now \in Nat,
           b.tokens <= max_tokens(spec), b.updated_at <= now
    PROVE  LET r == bucket_consume(spec, b, Cost, now)
               wait == r.result.retry_after
               At(t) == bucket_consume(spec, r.bucket, Cost, t).result.allowed
           IN  ~r.result.allowed /\ wait # NoRetry => At(now + wait) /\ ~At(now + wait - 1)
<1>. DEFINE max == max_tokens(spec)
            rate == spec.rate
            filled == b.tokens + (now - b.updated_at) * rate
            t == IF filled <= max THEN filled ELSE max
            r == bucket_consume(spec, b, Cost, now)
            wait == r.result.retry_after
            q == CeilDiv(Cost - t, rate)
<1>1. SUFFICES ASSUME ~r.result.allowed, wait # NoRetry
               PROVE  /\ bucket_consume(spec, r.bucket, Cost, now + wait).result.allowed
                      /\ ~bucket_consume(spec, r.bucket, Cost, now + wait - 1).result.allowed
  OBVIOUS
<1>2. /\ filled \in Nat /\ t \in Nat
      /\ r.result.allowed <=> Cost <= t
      /\ ~(Cost <= t) => r.bucket = [tokens |-> t, updated_at |-> now]
      /\ ~(Cost <= t) /\ (Cost > max \/ rate <= 0) => r.result = Result(FALSE, NoRetry)
      /\ ~(Cost <= t) /\ ~(Cost > max \/ rate <= 0) => r.result = Result(FALSE, q)
  BY ConsumeIs
<1>3. max \in Nat /\ rate \in Nat /\ Cost \in Nat
  BY SpecFacts, LimiterConstants
<1>. HIDE DEF r, max, rate, filled
<1>4. ~(Cost <= t) /\ t <= max
  BY <1>1, <1>2, <1>3, SMT
<1>. HIDE DEF t
<1>5. ~(Cost > max) /\ ~(rate <= 0)
  BY <1>1, <1>2, <1>4, SMT DEF Result
<1>6. wait = q
  <2>1. r.result = Result(FALSE, q)
    BY <1>2, <1>4, <1>5
  <2>. HIDE DEF q
  <2>. QED BY <2>1, SMT DEF Result
<1>7. Cost - t \in Nat \ {0} /\ rate \in Nat \ {0}
  BY <1>2, <1>3, <1>4, <1>5, SMT
<1>8. q \in Nat \ {0} /\ Cost - t <= q * rate /\ (q - 1) * rate < Cost - t
  BY <1>7, CeilDivFacts
<1>9. /\ r.bucket \in Buckets /\ r.bucket.tokens = t /\ r.bucket.updated_at = now
      /\ r.bucket.tokens <= max /\ r.bucket.updated_at <= now
  BY <1>2, <1>4, SMT DEF Buckets
<1>. HIDE DEF q, wait
<1>10. ASSUME NEW x \in Nat
       PROVE  LET full == t + x * rate IN
              /\ full \in Nat
              /\ bucket_consume(spec, r.bucket, Cost, now + x).result.allowed
                   <=> Cost <= (IF full <= max THEN full ELSE max)
  <2>. DEFINE late == now + x
              more == r.bucket.tokens + (late - r.bucket.updated_at) * rate
  <2>1. late \in Nat /\ r.bucket.updated_at <= late /\ late - now = x
    BY <1>9, SMT
  <2>. HIDE DEF late
  <2>2. /\ more \in Nat
        /\ bucket_consume(spec, r.bucket, Cost, late).result.allowed
             <=> Cost <= (IF more <= max THEN more ELSE max)
    BY <1>9, <2>1, ConsumeIs DEF max, rate
  <2>3. more = t + x * rate
    BY <1>9, <2>1
  <2>. QED BY <2>2, <2>3 DEF late
<1>11. bucket_consume(spec, r.bucket, Cost, now + q).result.allowed
  <2>1. /\ t + q * rate \in Nat
        /\ bucket_consume(spec, r.bucket, Cost, now + q).result.allowed
             <=> Cost <= (IF t + q * rate <= max THEN t + q * rate ELSE max)
    BY <1>8, <1>10
  <2>. DEFINE gain == q * rate
  <2>2. gain \in Nat
    BY <1>3, <1>8, SMT
  <2>. HIDE DEF gain
  <2>3. Cost <= (IF t + gain <= max THEN t + gain ELSE max)
    BY <1>2, <1>3, <1>5, <1>8, <2>2, SMT DEF gain
  <2>. QED BY <2>1, <2>3 DEF gain
<1>12. ~bucket_consume(spec, r.bucket, Cost, now + q - 1).result.allowed
  <2>1. q - 1 \in Nat /\ now + (q - 1) = now + q - 1
    BY <1>8, SMT
  <2>. DEFINE gain == (q - 1) * rate
  <2>2. /\ t + gain \in Nat
        /\ bucket_consume(spec, r.bucket, Cost, now + (q - 1)).result.allowed
             <=> Cost <= (IF t + gain <= max THEN t + gain ELSE max)
    BY <1>10, <2>1
  <2>3. gain \in Nat /\ gain < Cost - t
    BY <1>3, <1>8, SMT
  <2>. HIDE DEF gain
  <2>4. ~(Cost <= (IF t + gain <= max THEN t + gain ELSE max))
    BY <1>2, <1>3, <2>3, SMT
  <2>. QED BY <2>1, <2>2, <2>4
<1>. QED BY <1>6, <1>11, <1>12

\* A refused call that comes back after the retry_after it was given, alone, is allowed, and one
\* tick earlier it is not; the in-memory bucket and the Lua script give the same answer and leave
\* the same bucket in every reachable state (token_bucket.py, redis_rate_limiter.py).
THEOREM RetryAfterHolds == GuardsSpec => []RetryAfterIsExact
<1>1. RateInv => RetryAfterIsExact
  <2>. SUFFICES ASSUME RateInv, NEW k \in Checks
                PROVE  LET b == IF Has(buckets, k.key) THEN from_state(k.spec, Lookup(buckets, k.key))
                                ELSE [tokens |-> max_tokens(k.spec), updated_at |-> clock]
                           r == bucket_consume(k.spec, b, Cost, clock)
                           At(t) == bucket_consume(k.spec, r.bucket, Cost, t).result.allowed
                       IN  /\ CONSUME_LUA(k.spec, b, Cost, clock) = r
                           /\ ~r.result.allowed /\ r.result.retry_after # NoRetry =>
                                /\ At(clock + r.result.retry_after)
                                /\ ~At(clock + r.result.retry_after - 1)
    BY DEF RetryAfterIsExact
  <2>. DEFINE b == IF Has(buckets, k.key) THEN from_state(k.spec, Lookup(buckets, k.key))
                   ELSE [tokens |-> max_tokens(k.spec), updated_at |-> clock]
  <2>1. clock \in Nat /\ BucketsKept(buckets, clock) /\ k.spec \in Specs
    BY CheckSpec DEF RateInv
  <2>2. b \in Buckets /\ b.tokens <= max_tokens(k.spec) /\ b.updated_at <= clock
    BY <2>1, BucketAt
  <2>. HIDE DEF b
  <2>3. CONSUME_LUA(k.spec, b, Cost, clock) = bucket_consume(k.spec, b, Cost, clock)
    BY <2>1, <2>2, LuaIsConsume
  <2>4. LET r == bucket_consume(k.spec, b, Cost, clock)
            wait == r.result.retry_after
            At(t) == bucket_consume(k.spec, r.bucket, Cost, t).result.allowed
        IN  ~r.result.allowed /\ wait # NoRetry => At(clock + wait) /\ ~At(clock + wait - 1)
    BY <2>1, <2>2, WaitIsExact
  <2>. QED BY <2>3, <2>4 DEF b
<1>. QED BY <1>1, RateInvInit, RateInvStep, PTL DEF GuardsSpec
=============================================================================
