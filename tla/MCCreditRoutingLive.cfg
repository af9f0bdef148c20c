CONSTANTS
    k1 = k1
    k2 = k2
    Keys = {k1}
    RenewalDay <- MCRenewalDay
    Snapshots = {0, 1, 2}
    Usages = {0, 2}
    Ids = {d1, d2}
    Local = Local
    Allowance = 2
    Instances = {i1}
    Requests = {r1}
SPECIFICATION MCFairSpec
PROPERTIES
    ReservationsDrain
    LedgerConverges
    LocalDisableLifts
