SPECIFICATION JoinFairSpec
CONSTANTS
    Thread = {main, w1, w2}
    MainThread = main
    NoThread = none
    MaxDepth = 1
    MaxPresses = 0
    ExitAllocates = TRUE
    SpuriousJoin = TRUE
    Freezers = {w2}
INVARIANTS
    JoinIsSound
PROPERTIES
    JoinReturnsResult
    ImplementsFreeze
    JoinReturnsUnlessHeldUp
