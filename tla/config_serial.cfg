SPECIFICATION Spec
CONSTANTS
    Workers = {w1}
    Fields = {"f", "g"}
    Values = {0, 1}
    Requests <- AnyRequest
    Events <- MCEvents
    Shape <- MCShape
    Starts = {0, 1, 2}
    Period = 2
    Polls = FALSE
    MaxClock = 5
    MaxChanges = 2
    MaxFaults = 1
INVARIANTS QuietIsDelivered EveryOccurrence
PROPERTY EventsTakeEffect
CHECK_DEADLOCK FALSE
