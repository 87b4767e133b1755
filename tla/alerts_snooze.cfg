SPECIFICATION Spec
CONSTANTS
    Workers = {w1}
    Alerts = {"a1", "a2"}
    Networks = {"n1"}
    Members = {"n1"}
    Fields <- MCFields
    Readings <- OnlyHot
    Conf <- TriggerConf
    Attachments <- AllDirect
    MaxClock = 2
    MaxPosts = 3
    MaxEdits = 0
    MaxCrashes = 0
INVARIANT AllAlertsProcessed
CHECK_DEADLOCK FALSE
