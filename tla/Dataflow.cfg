SPECIFICATION DiamondSpec
CONSTANTS
    MaxInputs = 4
    MaxResets = 1
INVARIANTS
    LatencyInsensitive
    CopiesConserved
PROPERTY EveryInputLeaves
