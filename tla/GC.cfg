SPECIFICATION GCSpec
CONSTANTS
    Obj = {o1, o2, o3}
    Field = {f}
    Nil = Nil
    Stale = Stale
    StackSize = 2
    Temps = FALSE
    MarkStops = FALSE
    ListsFill = FALSE
    Finalizers = FALSE
    MarkMayFail = TRUE
    MaxDisallow = 1
SYMMETRY Symmetry
INVARIANTS
    CollectorIsSound
PROPERTIES
    ImplementsHeap
