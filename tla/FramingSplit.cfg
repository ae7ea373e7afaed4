SPECIFICATION Spec
CONSTANTS
    HeaderSize = 2
    MaxPacketSize = 5
    Bodies = {0, 1, 3}
    Garbage = {2, 6}
    Sent = 2
    MaxShort = 1
INVARIANT DeliveredAsSent
CHECK_DEADLOCK FALSE
