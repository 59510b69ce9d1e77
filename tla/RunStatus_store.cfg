\* Two processes behind one socket, three runs in stores of two, one
\* restart, one run polled in the process that does not know it.
CONSTANTS
    Runs = {1, 2, 3}
    Procs = {p1, p2}
    FirstProc = p1
    MaxRuns = 2
    MaxStrays = 1
    MaxItems = 1
    MaxRestarts = 1
SPECIFICATION FairSpec
CONSTRAINTS DrawnInOrder FewStrays
INVARIANTS StoreTruthful
PROPERTIES PollsMoveForward RecordsSettle
CHECK_DEADLOCK FALSE
