\* Two worker processes: two runs share one registry, the third has its own; two items each.
CONSTANTS
    r1 = r1  r2 = r2  r3 = r3
    p1 = p1  p2 = p2
    Runs = {r1, r2, r3}
    Procs = {p1, p2}
    ProcOf <- TwoProcesses
    Keys = {k1}
    Locks = {l1, l2, l3}
    NoLock = NoLock
    NoKey = NoKey
    MaxItems = 2
SPECIFICATION FairSpec
INVARIANTS MutualExclusion RegistryExact
PROPERTIES ImplementsKeyedMutex RunsEnd
CHECK_DEADLOCK FALSE
