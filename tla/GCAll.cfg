SPECIFICATION GCSpec
CONSTANTS
    Obj = {o1, o2}
    Field = {f}
    Nil = Nil
    Stale = Stale
    StackSize = 1
    Temps = TRUE
    MarkStops = TRUE
    ListsFill = TRUE
    Finalizers = TRUE
    MarkMayFail = FALSE
    MaxDisallow = 0
CONSTRAINT Defined
SYMMETRY Symmetry
PROPERTIES
    ImplementsHeap
    FinalizerRunsOnce
