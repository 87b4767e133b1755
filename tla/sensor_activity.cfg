SPECIFICATION FairSpec
CONSTANTS
    Sensors <- MCSensors
    Alerts <- MCAlerts
    Watches <- MCWatches
    Limit <- MCLimit
    Between <- MCBetween
    Hours <- MCHours
    Timeout <- MCTimeout
    FirstUpdates <- UpdatedOrNot
    Posters = {q1}
    Workers = {w1}
    StatusWorkers = {d1}
    MaxClock = 3
    MaxPosts = 2
    MaxFaults = 1
INVARIANTS RecoveryFollowsOutage OneDownPerSilence
PROPERTY SilentIsDown
CHECK_DEADLOCK FALSE
