SPECIFICATION GCSpec
CONSTANTS
    Obj = {o1, o2}
    Field = {f}
    Nil = Nil
    Stale = Stale
    StackSize = 2
    Temps = TRUE
    MarkStops = TRUE
    ListsFill = FALSE
    Finalizers = FALSE
    MarkMayFail = FALSE
    MaxDisallow = 0
SYMMETRY Symmetry
INVARIANTS
    MarkReadsNoStale
