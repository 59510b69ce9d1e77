\* Two streams over one thread, three tokens each through a queue of one.
CONSTANTS
    Reqs = {r1, r2}
    MaxTokens = 3
    QueueSize = 1
    Threads = 1
    Gate = 2
SPECIFICATION FairSpec
INVARIANTS TeardownPrompt
PROPERTIES ImplementsAnswerStream StreamsEnd
CHECK_DEADLOCK FALSE
