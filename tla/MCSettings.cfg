CONSTANTS
    keys = keys
    ttl = ttl
    Names = {keys, ttl}
    Secret = keys
    Reads = {r1, r2}
    Batches = {{keys}, {keys, ttl}}
    Updates <- MCUpdates
    Ttl = 1
    MaxSaves = 1
    MaxFaults = 1
SPECIFICATION FairSpec
INVARIANTS
    ReadYourSaves
PROPERTIES
    SavesSurvive
    CachesConverge
    LegacyEncrypted
