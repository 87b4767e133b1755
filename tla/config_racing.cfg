SPECIFICATION FairSpec
CONSTANTS
    Workers = {w1, w2}
    Fields = {"f", "g"}
    Values = {0, 1}
    Requests <- OneRequest
    Events <- OneEvent
    Shape <- OneShape
    Starts = {1}
    Period = 2
    Polls = TRUE
    MaxClock = 1
    MaxChanges = 2
    MaxFaults = 1
INVARIANTS StaleOnlyByRace AskedStays
PROPERTY Learns
CHECK_DEADLOCK FALSE
