CONSTANTS
    Channels = {c1, c2}
    MaxWrites = 1
    MaxConnects = 1
    MaxTimeouts = 0
    MaxDrops = 0
SPECIFICATION IsolationSpec
PROPERTIES
    OthersDelivered
CHECK_DEADLOCK FALSE
