SPECIFICATION MCPoolSpec
CONSTANTS
    Thread = {main, w1, w2, w3, w4, w5}
    MainThread = main
    NoThread = none
    MaxDepth = 1
    MaxPresses = 0
    MaxJobs = 5
    ArgBufSize = 3
    Freezers = {main}
INVARIANTS
    PoolIsSound
PROPERTIES
    ImplementsFreeze
    CreatedIsStarted
CHECK_DEADLOCK FALSE
