SPECIFICATION FairSpec
CONSTANTS
    Attempts = 2
    MaxReads = 2
INVARIANT OnlyCurrentOpen
INVARIANT NeverDeaf
INVARIANT OpenIsConnected
PROPERTY LossIsNoticed
CHECK_DEADLOCK FALSE
