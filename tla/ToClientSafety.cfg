CONSTANTS
    Channels = {c1}
    MaxWrites = 2
    MaxConnects = 2
    MaxTimeouts = 1
    MaxDrops = 0
SPECIFICATION Spec
INVARIANTS
    TypeOK
    PopsWhatItShowed
    NoLostDoorbell
    NoLostWakeup
    UnsubscribeAckIsLast
    ConnectedIsSubscribed
PROPERTY ImplementsStream
CHECK_DEADLOCK FALSE
