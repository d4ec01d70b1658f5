SPECIFICATION FairSpec
CONSTANTS
    Threads = {t1, t2}
    Kinds <- MCKinds
    MaxConnects = 3
    MaxMessages = 4
    MaxReads = 3
    MaxSlots = 3
INVARIANTS SlotsAreReleased NoCallbackOutlivesItsConnection ReadsAreTheStream NoOrphanedRead
PROPERTY DisconnectEnds
CHECK_DEADLOCK FALSE
