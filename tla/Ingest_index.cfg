\* Syncs of a file under edit, deletes across two tenants, overlapping uploads.
CONSTANTS
    t1 = t1  t2 = t2  t3 = t3  t4 = t4
    p1 = p1  p2 = p2
    a = a  b = b
    g1 = g1  g2 = g2
    d1 = d1  d2 = d2  d3 = d3
    NoPath = NoPath  NoDoc = NoDoc
    Tasks = {t1, t2, t3}
    Mixes <- AllMixes
    Procs = {p1, p2}
    Paths = {a, b}
    Tags = {g1, g2}
    Docs = {d1, d2, d3}
    Modes = {"read", "layout"}
    Size <- TwoChunks
    Contents <- EditedAtA
    BatchSize = 1
    Faults = {"raise", "crash", "degraded", "emptyParse"}
SPECIFICATION Spec
INVARIANTS VersionsReplace UploadedStays
PROPERTIES TenantIsolation
CHECK_DEADLOCK FALSE
