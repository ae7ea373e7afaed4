SPECIFICATION FairSpec
CONSTANTS
    u = u
    v = v
    strand = strand
    io1 = io1
    io2 = io2
    free = free
    Callers = {u, v}
    Strand = strand
    TimerThreads = {io1, io2}
    Controllers = {u, v, strand}
    Resumers = {strand}
    Closers = {v}
    MaxPackets = 3
    MaxDue = 2
    Free = free
INVARIANT OneReadAtATime
 
INVARIANT NothingLost
PROPERTY ReceivedIsDispatched
CHECK_DEADLOCK FALSE
