-------------------------- MODULE MCInMemoryQueue --------------------------
(* Model checking InMemoryQueue: model values for the ids, small times.    *)
EXTENDS InMemoryQueue, TLC

CONSTANTS e1, e2, c1, c2

TwoEnvelopes == {e1, e2}
TwoConsumers == {c1, c2}
ShortTimeout == {1}
ShortDelays == {0, 1}
============================================================================
