SPECIFICATION FairSpec
CONSTANTS
    Ports = {p1}
    QuickSets = {{}}
    Backends = {"polled"}
    MaxCalls = 4
    MaxQueued = 0
PROPERTIES
    CallbacksAreExecuted
