SPECIFICATION FairSpec
CONSTANTS
    c1 = c1
    c2 = c2
    Calls <- MCCalls
    MaxRetries = 2
    Cases <- MCCases
INVARIANTS AnswerIsWhole
PROPERTIES KeepsPromise EveryCallReported
CHECK_DEADLOCK FALSE
