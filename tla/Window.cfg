SPECIFICATION FairSpec
CONSTANTS
    MaxFixed = 2
    MaxAfter = 1
    MaxList = 2
    MaxMessages = 3
    MaxReconnects = 1
    Room = 2
INVARIANTS
    RoundTrip
PROPERTIES
    EveryMessageArrives
