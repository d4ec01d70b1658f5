SPECIFICATION FairSpec
CONSTANTS
    Depth = 3
    Latency = 3
    MaxTokens = 6
INVARIANTS
    DataIsTheTokens
    AssertionsHold
PROPERTIES
    BufferIsQueue
    EveryTokenLeaves
