CONSTANTS
    Calls = {c1, c2, c3, c4}
    Threshold = 2
    Cooldown = 2
    MaxGeneration = 3
SPECIFICATION MCSpec
INVARIANTS
    ProbeDiscipline
PROPERTIES
    KeepsPromise
    Recovers
