SPECIFICATION GCFairSpec
CONSTANTS
    Obj = {o1, o2}
    Field = {f}
    Nil = Nil
    Stale = Stale
    StackSize = 2
    Temps = FALSE
    MarkStops = FALSE
    ListsFill = FALSE
    Finalizers = FALSE
    MarkMayFail = FALSE
    MaxDisallow = 0
PROPERTIES
    GarbageIsFreed
