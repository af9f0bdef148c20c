\* One request: the behaviour ends when it is answered.
CONSTANTS
    Keys = {k1, k2}
    HeaderSets = {{}, {"cookie"}}
    Bodies = {{}, {"cloud option"}, {"private url", "cloud option"}}
SPECIFICATION Spec
INVARIANTS
    SensitiveSparesFallbackKeys
CHECK_DEADLOCK FALSE
