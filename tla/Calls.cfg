SPECIFICATION FairSpec
CONSTANTS
    Callers = {c1, c2, c3}
    MaxCalls = 5
    MaxResets = 1
    Capacity = 2
INVARIANTS
    OwnAnswer
PROPERTIES
    EveryCallAnswered
