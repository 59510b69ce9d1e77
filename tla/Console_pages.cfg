SPECIFICATION PageSpec
CONSTANTS
    A = A
    B = B
    s1 = s1
    s2 = s2
    d1 = d1
    d2 = d2
    None = None
    Tags <- MCTags
    Servers <- MCServers
    Docs <- MCDocs
    MaxCalls = 5
    MaxVisits = 2
INVARIANTS PageIsCurrent DeletesConfirmed
PROPERTIES RunsNeverGoBack PageSettles
CHECK_DEADLOCK FALSE
