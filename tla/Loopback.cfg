SPECIFICATION LoopSpec
CONSTANTS
    Writers = {w1, w2}
    Pollers = {p1}
    Frames = 2
    Addresses = {a1}
    ReadAddresses = {b1}
    MaxWrites = 5
    MaxConnects = 1
    Channel = 1
INVARIANTS
    FramesKeepOrder
    BackpressureReachesWriters
PROPERTY EveryFrameReturns
CHECK_DEADLOCK FALSE
