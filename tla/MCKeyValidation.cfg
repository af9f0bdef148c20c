CONSTANTS
    Instances = {i1, i2}
    Requests = {r1, r2}
    TTL = 2
    MaxChanges = 2
    None = None
SPECIFICATION FairSpec
PROPERTIES
    ServesFresh
    RevocationSpreads
    ValidationsEnd
