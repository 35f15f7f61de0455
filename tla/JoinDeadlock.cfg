SPECIFICATION JoinFairSpec
CONSTANTS
    Thread = {main, w1}
    MainThread = main
    NoThread = none
    MaxDepth = 1
    MaxPresses = 0
    ExitAllocates = TRUE
    SpuriousJoin = FALSE
    Freezers = {}
PROPERTIES
    JoinReturns
