SPECIFICATION Spec
CONSTANTS
    Workers = {w1}
    Alerts = {"a1", "a2"}
    Networks = {"n1", "n2"}
    Members = {"n1"}
    Fields <- MCFields
    Readings <- HotAndCold
    Conf <- SerialConf
    Attachments <- TwoPaths
    MaxClock = 3
    MaxPosts = 4
    MaxEdits = 0
    MaxCrashes = 1
INVARIANTS AnnouncedAtStamp NoDuplicateInsert ThresholdHonoured
PROPERTY ImplementsEpisode
CHECK_DEADLOCK FALSE
