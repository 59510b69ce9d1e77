SPECIFICATION EvalSpec
CONSTANTS
    j1 = j1
    j2 = j2
    NaN = NaN
    Missing = Missing
    NoNumber = NoNumber
    Torn = Torn
    Garbled = Garbled
    Jobs <- MCJobs
    Metrics <- MCMetrics
    MaxScore = 4
    Tolerance = 1
    Rows <- MCRows
    Cases <- MCCases
    Dropped <- MCDropped
    MaxRuns = 2
    MaxClock = 2
SYMMETRY JobSymmetry
INVARIANTS GateSound BaselineSound
PROPERTIES ArchiveSound
CHECK_DEADLOCK FALSE
