SPECIFICATION FairSpec
CONSTANTS
    Ports = {p1, p2}
    QuickSets = {{}, {p2}}
    Backends = {"threaded", "polled"}
    MaxCalls = 3
    MaxQueued = 1
INVARIANTS
    CallsInOrder
PROPERTIES
    QuietAfterDisconnect
    CallsAreRun
    StopReturns
