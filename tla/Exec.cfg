SPECIFICATION FairSpec
CONSTANTS
    Program <- MCProgram
    MaxConds = 3
    MaxLocal = 20
    Deviations = {}
INVARIANTS
    RunsAsWritten
    ContextsAreSound
PROPERTY
    Terminates
CHECK_DEADLOCK FALSE
