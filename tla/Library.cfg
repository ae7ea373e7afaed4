SPECIFICATION FairSpec
CONSTANTS
    Users = {u, v}
    NoUser = NoUser
    App = app
    IoThreads = {io1, io2}
    Conns = {c1, c2, c3}
    NoConn = NoConn
    Objects = {o1, o2}
    NoObject = NoObject
    Sizes = {1, 2, 3, 11}
    Separator = ","
    Quote = "'"
    Others = {"x"}
    MaxPacketSize = 8
    HeaderSize = 2
    Wrap = 10
    MaxConnect = 2
    MaxObjectNum = 2
    MaxDue = 2
    MaxLogBuffer = 3
    MaxTexts = 4
    MaxClients = 3
    MaxField = 2
    MaxColumns = 2
    MaxRows = 2
INVARIANT WithinAllocation
INVARIANT ReadsBack
INVARIANT Accounted
INVARIANT OneHome
INVARIANT AllLogged
INVARIANT NoneForgotten
INVARIANT FieldsFound
PROPERTY StopIsQuiet
CHECK_DEADLOCK FALSE
