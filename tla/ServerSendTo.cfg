SPECIFICATION FairSpec
CONSTANTS
    s1 = s1
    s2 = s2
    s3 = s3
    g1 = g1
    g2 = g2
    io1 = io1
    io2 = io2
    app = app
    user = user
    none = none
    Session = {s1}
    Server = {g1}
    TimerThreads = {io1}
    Controller = app
    Users = {user}
    AcceptNum = 1
    StartId = 2
    IdLimit = 5
    AcceptMayFail = FALSE
    CallsSendTo = TRUE
    MaxDue = 1
    None = none
PROPERTY SendToReturns
CHECK_DEADLOCK FALSE
