SPECIFICATION Spec
CONSTANTS
    Sensors <- MCSensors
    Alerts <- MCAlerts
    Watches <- OneWatch
    Limit <- MCLimit
    Between <- MCBetween
    Hours <- MCHours
    Timeout <- MCTimeout
    FirstUpdates <- NeverUpdated
    Posters = {q1}
    Workers = {w1}
    StatusWorkers = {d1}
    MaxClock = 4
    MaxPosts = 1
    MaxFaults = 0
INVARIANT ValuesStored
CHECK_DEADLOCK FALSE
