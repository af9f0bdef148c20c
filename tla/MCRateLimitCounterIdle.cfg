CONSTANTS
    Scheduled = TRUE
    Pinned = FALSE
    Crowded = FALSE
    MaxHits = 3
    MaxOthers = 0
    MaxWindows = 2
    MaxReplays = 0
SPECIFICATION MCLimitSpec
PROPERTY
    IdleUsagePersisted
CHECK_DEADLOCK FALSE
