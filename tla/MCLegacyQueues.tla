--------------------------- MODULE MCLegacyQueues ---------------------------
(* The two in-memory queues that the application is not built with: two    *)
(* envelopes or messages, clocks that move both ways.                       *)
EXTENDS TaskQueueInMemory, QueueBackendInMemory

CONSTANTS q1, q2

OneUrgent == [e \in TQEnvelopes |-> IF e = q2 THEN 1 ELSE 0]

\* Neither queue loses a message, or delivers one that somebody else still holds: see
\* TaskQueueDelivers and BackendDelivers.
LegacyQueuesDeliver == TaskQueueDelivers /\ BackendDelivers
=============================================================================
