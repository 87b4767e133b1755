SPECIFICATION FairSpec
CONSTANTS
    Messages <- MCMessages
    Kind <- MCKind
    Threads = 2
    Prefetch = 2
    MaxDrops = 1
INVARIANTS SlotsHeldByWork FirstSessionAcks
PROPERTIES Recovers Drained
CHECK_DEADLOCK FALSE
