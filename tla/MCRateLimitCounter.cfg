CONSTANTS
    Scheduled = TRUE
    Pinned = FALSE
    Crowded = TRUE
    MaxHits = 3
    MaxOthers = 1
    MaxWindows = 2
    MaxReplays = 1
SPECIFICATION MCSpec
INVARIANTS
    HitsAccounted
    RowCountsEveryone
    DrainTriesThrice
PROPERTIES
    FlushesAreCurrent
    QuotaUsagePersisted
CHECK_DEADLOCK FALSE
