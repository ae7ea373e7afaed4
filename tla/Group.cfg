SPECIFICATION FairSpec
CONSTANTS
    Group = {"gate", "center", "world", "db"}
    Kinds = {"login", "logout"}
    MaxConns = 2
    MaxRequests = 1
    Late = {"db"}
    Fragile = {"db"}
    MaxFailures = 1
    MaxCounts = 1
INVARIANT RequestsAccounted
INVARIANT ReadyLosesNothing
INVARIANT TableOnPacketThread
PROPERTY EveryRequestEnds
CHECK_DEADLOCK FALSE
