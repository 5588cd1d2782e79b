SPECIFICATION FairSpec
CONSTANTS
    e1 = e1
    e2 = e2
    c1 = c1
    c2 = c2
    NoLease = NoLease
    Envelopes <- TwoEnvelopes
    Consumers <- TwoConsumers
    Timeouts <- ShortTimeout
    Delays <- ShortDelays
    MaxTime = 1
    MaxLeases = 3
INVARIANTS
    NoEnvelopeLost
    NoLostWakeup
PROPERTIES
    ImplementsContract
    WaitersAreWoken
CHECK_DEADLOCK FALSE
