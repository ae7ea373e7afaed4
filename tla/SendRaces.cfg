SPECIFICATION FairSpec
CONSTANTS
    u = u
    v = v
    strand = strand
    Callers = {u, v}
    Strand = strand
    Senders = {u, v, strand}
    Controllers = {u, v}
    Closers = {v}
    Chunks = 1
    MaxSends = 3
    DelayedStores = FALSE
INVARIANT FirstInFirstOut
INVARIANT NothingLost
INVARIANT NoLostWakeup
INVARIANT SuspendTakesHold
PROPERTY QueuedIsIssued
CHECK_DEADLOCK FALSE
