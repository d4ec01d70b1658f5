CONSTANTS
    Channels = {c1}
    MaxWrites = 2
    MaxConnects = 1
    MaxTimeouts = 0
    MaxDrops = 1
SPECIFICATION FairSpec
PROPERTIES
    ImplementsStream
    EventuallyDelivered
    CallsReturn
CHECK_DEADLOCK FALSE
