SPECIFICATION Spec
CONSTANTS
    Workers = {w1, w2}
    Alerts = {"a1", "a2"}
    Networks = {"n1"}
    Members = {"n1"}
    Fields <- MCFields
    Readings <- HotAndCold
    Conf <- RacingConf
    Attachments <- SomeDirect
    MaxClock = 2
    MaxPosts = 3
    MaxEdits = 1
    MaxCrashes = 0
INVARIANTS NotificationBacked TriggeredIsAnnounced ResetFollowsAnnouncement
SYMMETRY WorkerSymmetry
CHECK_DEADLOCK FALSE
