CONSTANTS
    Audiences = {a1, a2}
    Nobody = Nobody
    Rules = {"fallback_rate", "circuit_open"}
    Reminder = 4
    ResolveAfter = 2
    Window = 1
    MinRequests = 1
    RatioPercent = 50
    MaxPerMinute = 1
    MaxLag = 1
SPECIFICATION MCSpec
INVARIANTS
    FiringWasHeard
PROPERTIES
    ResolvedWasHeard
    ProblemsAnnounced
    IncidentsEnd
