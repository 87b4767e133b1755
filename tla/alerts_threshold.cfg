SPECIFICATION Spec
CONSTANTS
    Workers = {w1}
    Alerts = {"a1", "a2"}
    Networks = {"n1"}
    Members = {"n1"}
    Fields <- MCFields
    Readings <- HotAndCold
    Conf <- ThresholdConf
    Attachments <- AllDirect
    MaxClock = 4
    MaxPosts = 4
    MaxEdits = 0
    MaxCrashes = 0
INVARIANT ThresholdActive
CHECK_DEADLOCK FALSE
