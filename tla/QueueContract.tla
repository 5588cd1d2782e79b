--------------------------- MODULE QueueContract ---------------------------
(***************************************************************************)
(* What every backend of reflexor.orchestrator.queue.Queue promises        *)
(* (interface.py, semantics.py), with nothing of how a backend stores its  *)
(* envelopes.  An envelope is held from its enqueue to its ack; while held *)
(* it is either leased to one consumer until a deadline, or eligible from  *)
(* its due time on.  Every operation may first take back any of the leases *)
(* whose visibility timeout has elapsed: backends expire leases lazily.    *)
(***************************************************************************)
EXTENDS Integers, FiniteSets

CONSTANTS
    Envelopes,   \* envelope ids
    LeaseIds,    \* lease ids
    NoLease,     \* active_lease_id = None
    Times,       \* the values of available_at_ms an envelope may come with
    Timeouts,    \* visibility timeouts of dequeue(timeout_s=...)
    Delays       \* delays of nack(delay_s=...)

VARIABLES
    now,         \* the clock every operation reads
    held,        \* envelopes enqueued and not yet acked
    due,         \* due[e]: no delivery of e before this time
    lease,       \* lease[e]: the lease e is delivered under, or NoLease
    deadline,    \* deadline[e]: when lease[e] stops hiding e
    attempt,     \* attempt[e]: the attempt number of e's next delivery
    settled      \* leases some consumer has called ack or nack with

contractVars == <<now, held, due, lease, deadline, attempt, settled>>

ContractInit ==
    /\ held = {}
    /\ due = [e \in Envelopes |-> 0]
    /\ lease = [e \in Envelopes |-> NoLease]
    /\ deadline = [e \in Envelopes |-> 0]
    /\ attempt = [e \in Envelopes |-> 0]
    /\ settled = {}

\* Lease.is_expired
Overdue == {e \in held : lease[e] # NoLease /\ deadline[e] <= now}

\* The lease and due time of every envelope once the overdue leases of X are
\* taken back: invariant 4, visibility timeout may cause re-delivery.
LeaseAfter(X) == [e \in Envelopes |-> IF e \in X THEN NoLease ELSE lease[e]]
DueAfter(X) == [e \in Envelopes |-> IF e \in X THEN now ELSE due[e]]
DeadlineAfter(X) == [e \in Envelopes |-> IF e \in X THEN 0 ELSE deadline[e]]

TakeBack(X) ==
    /\ lease' = LeaseAfter(X)
    /\ due' = DueAfter(X)
    /\ deadline' = DeadlineAfter(X)
    /\ UNCHANGED <<now, held, attempt>>

Enqueue(e, at, X) ==
    /\ e \notin held
    /\ held' = held \cup {e}
    /\ due' = [DueAfter(X) EXCEPT ![e] = at]
    /\ attempt' = [attempt EXCEPT ![e] = 0]
    /\ lease' = LeaseAfter(X)
    /\ deadline' = DeadlineAfter(X)
    /\ UNCHANGED <<now, settled>>

\* A delivery needs an envelope no consumer holds and whose time has come
\* (invariant 7), under a lease id no one else uses; the attempt number only
\* grows (invariant 6).
Deliver(e, l, timeout, X) ==
    /\ e \in held
    /\ LeaseAfter(X)[e] = NoLease
    /\ DueAfter(X)[e] <= now
    /\ \A f \in Envelopes : lease[f] # l
    /\ lease' = [LeaseAfter(X) EXCEPT ![e] = l]
    /\ deadline' = [DeadlineAfter(X) EXCEPT ![e] = now + timeout]
    /\ attempt' = [attempt EXCEPT ![e] = @ + 1]
    /\ due' = DueAfter(X)
    /\ UNCHANGED <<now, held, settled>>

\* Invariant 2: the ack of the lease an envelope is delivered under removes the
\* envelope.
Ack(e, X) ==
    /\ e \in held
    /\ LeaseAfter(X)[e] # NoLease
    /\ settled' = settled \cup {lease[e]}
    /\ held' = held \ {e}
    /\ lease' = [LeaseAfter(X) EXCEPT ![e] = NoLease]
    /\ due' = [DueAfter(X) EXCEPT ![e] = 0]
    /\ deadline' = [DeadlineAfter(X) EXCEPT ![e] = 0]
    /\ attempt' = [attempt EXCEPT ![e] = 0]
    /\ UNCHANGED now

\* Invariant 3: the nack of that lease makes the envelope eligible after the delay.
Nack(e, delay, X) ==
    /\ e \in held
    /\ LeaseAfter(X)[e] # NoLease
    /\ settled' = settled \cup {lease[e]}
    /\ lease' = [LeaseAfter(X) EXCEPT ![e] = NoLease]
    /\ due' = [DueAfter(X) EXCEPT ![e] = now + delay]
    /\ deadline' = [DeadlineAfter(X) EXCEPT ![e] = 0]
    /\ UNCHANGED <<now, held, attempt>>

\* An ack or nack of an expired or unknown lease is ignored: whatever its envelope
\* is doing now, nothing but overdue leases changes.
Ignore(l, X) ==
    /\ \A e \in held : LeaseAfter(X)[e] # l
    /\ settled' = settled \cup {l}
    /\ TakeBack(X)

Close ==
    /\ held' = {}
    /\ due' = [e \in Envelopes |-> 0]
    /\ lease' = [e \in Envelopes |-> NoLease]
    /\ deadline' = [e \in Envelopes |-> 0]
    /\ attempt' = [e \in Envelopes |-> 0]
    /\ UNCHANGED <<now, settled>>

ClockMoves ==
    UNCHANGED <<held, due, lease, deadline, attempt, settled>>

ContractNext ==
    \/ \E X \in SUBSET Overdue :
        \/ TakeBack(X) /\ UNCHANGED settled
        \/ \E l \in LeaseIds : Ignore(l, X)
        \/ \E e \in Envelopes :
            \/ \E at \in Times : Enqueue(e, at, X)
            \/ \E l \in LeaseIds, timeout \in Timeouts : Deliver(e, l, timeout, X)
            \/ Ack(e, X)
            \/ \E delay \in Delays : Nack(e, delay, X)
    \/ Close
    \/ ClockMoves

ContractSpec == ContractInit /\ [][ContractNext]_contractVars
============================================================================
