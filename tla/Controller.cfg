SPECIFICATION FairSpec
CONSTANTS
    u = u
    v = v
    s1 = s1
    s2 = s2
    r1 = r1
    r2 = r2
    Callers = {u, v}
    Services = {s1, s2}
    Runners = {r1, r2}
    ThreadNum = 2
    MaxOps = 1
INVARIANT StopWaits
INVARIANT AskedIsStarted
PROPERTY ForceReturns
CHECK_DEADLOCK FALSE
