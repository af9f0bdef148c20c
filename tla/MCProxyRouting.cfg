\* One request: the behaviour ends when it is answered.
CONSTANTS
    Keys = {k1, k2, k3}
    HeaderSets = {{}, {"authorization"}, {"cookie"}}
    Bodies = {{}, {"secret header"}, {"private url"}, {"cloud option"}, {"secret header", "cloud option"}}
SPECIFICATION FairSpec
INVARIANTS
    RouteModeRespected
    SensitiveStaysHome
    ReserveAfterSelfHosted
CHECK_DEADLOCK FALSE
PROPERTY Answered
