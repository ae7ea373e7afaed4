SPECIFICATION FairSpec
CONSTANTS
    HeaderSize = 2
    MaxPacketSize = 5
    Bodies = {0, 1, 3}
    Garbage = {2, 6}
    Sent = 3
    MaxShort = 1
INVARIANT FramedInOrder
INVARIANT ForwardedWhole
INVARIANT OneOwner
INVARIANT NothingLeaks
PROPERTY SentIsTaken
CHECK_DEADLOCK FALSE
