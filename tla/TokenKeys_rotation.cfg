\* Three requests under two keys, over one lifetime of the cache entry.
CONSTANTS
    r1 = r1  r2 = r2  r3 = r3
    ka = ka  kb = kb
    Calls = {r1, r2, r3}
    Kids = {ka, kb}
    Cases <- Instances
    Ttl = 9
    Interval = 1
    NegTtl = 5
    NegCap = 1
    Leeway = 1
    FetchMax = 1
    MaxClock = 10
SPECIFICATION KeysSpec
INVARIANTS TenantsBound
PROPERTIES KeysTracked RotationPickedUp
CHECK_DEADLOCK FALSE
