SPECIFICATION LocksFairSpec
CONSTANTS
    Thread = {main, w1, w2}
    MainThread = main
    NoThread = none
    MaxDepth = 2
    MaxPresses = 0
    Heap = heap
    Outer = {mutex}
    NoLock = nolock
    Loaders = {w1}
CHECK_DEADLOCK TRUE
INVARIANTS
    LocksAreSound
PROPERTIES
    ImplementsFreeze
    HeapIsReleased
