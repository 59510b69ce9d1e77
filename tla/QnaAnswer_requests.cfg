\* Four requests through the cache; two through the graph, with every route and with some closed.
CONSTANTS
    r1 = r1  r2 = r2  r3 = r3  r4 = r4
    g1 = g1  g2 = g2
    Reqs = {r1, r2, r3, r4}
    Normal <- NormalForms
    Chunks = {"c1"}
    MaxBatches = 2
    MapAttempts = 2
    Concurrency = 1
    MaxIters = 2
    MaxTime = 2
    MaxEntries = 2
    TTL = 2
    Mixes <- AllMixes
SPECIFICATION FairSpec
INVARIANTS CacheSound FailuresContained VerifierKeepsAnswer
PROPERTIES RequestsEnd
CHECK_DEADLOCK FALSE
