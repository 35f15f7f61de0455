SPECIFICATION FairSpec
CONSTANTS
    Thread = {main, w1, w2}
    MainThread = main
    NoThread = none
    MaxDepth = 2
    MaxPresses = 1
INVARIANTS
    IInv
    OnlyExecuting
PROPERTIES
    FreezeConverges
    ImplementsStopTheWorld
    NoThreadIsLeftAsleep
    PendingKeyIsRaised
