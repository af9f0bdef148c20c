CONSTANTS
    k1 = k1
    k2 = k2
    Keys = {k1, k2}
    RenewalDay <- MCRenewalDay
    Snapshots = {0, 1, 2}
    Usages = {0, 2}
    Ids = {d1, d2, d3}
    Local = Local
    Allowance = 2
    Instances = {i1, i2}
    Requests = {r1, r2}
SPECIFICATION MCSpec
SYMMETRY MCSymmetry
INVARIANTS
    ReservedIsTracked
    NoCreditCreated
PROPERTIES
    ReservationHeld
