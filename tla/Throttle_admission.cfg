\* Three requests of one key and one of another; a window of two seconds in half-second ticks.
CONSTANTS
    r1 = r1  r2 = r2  r3 = r3  r4 = r4  r5 = r5
    k1 = k1  k2 = k2
    Reqs = {r1, r2, r3, r4}
    Keys = {k1, k2}
    KeyOf <- TwoKeys
    Limit = 2
    Window = 4
    TicksPerSec = 2
    MaxConcurrency = 2
    MaxNow = 6
SPECIFICATION Spec
SYMMETRY Symmetry
INVARIANTS LimiterSound GateExact
PROPERTIES RetryAfterSuffices
CHECK_DEADLOCK FALSE
