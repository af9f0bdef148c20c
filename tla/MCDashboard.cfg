SPECIFICATION MCSpec
CONSTANTS
    Log <- MCLog
    Today = 25
    DaysPerMonth = 10
    MonthsPerYear = 2
    Limit = 2
    FullEvery = 2
    PageSizes = {1, 2}
    Ranges = {"all", "today", "week", "month", "custom"}
    Backends = {"self-hosted", "cloud"}
    Statuses = {"2xx", "4xx", "5xx"}
    ApiKeys = {"a"}
    Days = {5}
    Months = {0}
    Years = {0}
    Searches = {"y"}
    MaxFaults = 1
    MaxChoices = 2
    k1 = k1
    short = short
    CloudKeys = {k1, short}
    ShortKeys = {short}
    Modes = {"hybrid", "cloud-first"}
    DefaultMode = "hybrid"
    Tokens = {"t1"}
    MaxKeys = 1
    MaxOthersSaves = 1
    MaxFailures = 1
    Ids = {1, 2}
    Minute = 2
    MaxTime = 4
    Counts = {1}
    MaxLostCalls = 1
INVARIANTS CardsMatchFilters PageHasRows SavedMeansStored
PROPERTIES DashboardConverges UntouchedFieldsKept
CHECK_DEADLOCK FALSE
