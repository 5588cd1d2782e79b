------------------------------- MODULE LruMap -------------------------------
(***************************************************************************)
(* The bounded OrderedDict that InMemoryCircuitBreaker and                 *)
(* InMemoryRateLimiter keep their state in: a sequence of entries, the     *)
(* least recently used first.                                              *)
(***************************************************************************)
EXTENDS Naturals, Sequences

Has(d, k) == \E i \in DOMAIN d : d[i].key = k

PlaceOf(d, k) == CHOOSE i \in DOMAIN d : d[i].key = k

Lookup(d, k) == d[PlaceOf(d, k)].val

\* d[k] = v and move_to_end(k)
Touch(d, k, v) ==
    LET i == PlaceOf(d, k)
        others == IF Has(d, k) THEN SubSeq(d, 1, i - 1) \o SubSeq(d, i + 1, Len(d)) ELSE d
    IN  Append(others, [key |-> k, val |-> v])

\* _evict_expired: entries leave from the old end until one is at a fresh place.
EvictExpired(d, fresh) ==
    IF fresh = {} THEN <<>> ELSE SubSeq(d, CHOOSE i \in fresh : \A j \in fresh : i <= j, Len(d))

\* _evict_lru
EvictLru(d, max) == IF Len(d) > max THEN SubSeq(d, Len(d) - max + 1, Len(d)) ELSE d
=============================================================================
