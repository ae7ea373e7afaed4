SPECIFICATION Spec
CONSTANTS
    u = u
    v = v
    strand = strand
    Callers = {u, v}
    Strand = strand
    Senders = {strand}
    Controllers = {}
    Closers = {u, v}
    Chunks = 2
    MaxSends = 4
    DelayedStores = TRUE
INVARIANT WireWhole
PROPERTY ImplementsChannel
CHECK_DEADLOCK FALSE
