CONSTANTS
    Conns = {c1, c2}
    MaxLive = 2
    MaxChannels = 1
    MaxData = 1
    MaxFailures = 1
SPECIFICATION FairSpec
INVARIANTS SessionIsAlive TableIsComplete OnlyAskedFrames
PROPERTIES HelloReturns SessionIsFreed StopEnds
CHECK_DEADLOCK FALSE
