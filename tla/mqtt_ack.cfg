SPECIFICATION Spec
CONSTANTS
    Messages <- TwoValues
    Kind <- ValueKind
    Threads = 2
    Prefetch = 2
    MaxDrops = 1
INVARIANT AckedIsProcessed
CHECK_DEADLOCK FALSE
