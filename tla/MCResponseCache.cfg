CONSTANTS
    Requests = {r1, r2}
    CacheKeys = {k1, k2}
    Lifetimes = {0, 1}
    MaxAges = {0}
    MaxEntry = 2
    MaxBytes = 2
    MaxSafe = 10
    Numerals = {0, 1}
    MaxDepth = 3
    MaxNumber = 111
SPECIFICATION AnswerSpec
INVARIANTS
    CachedIsWhole
    BytesCounted
    SettlesReportedUse
PROPERTIES
    OffMeansEmpty
    UpstreamsReleased
