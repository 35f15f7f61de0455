SPECIFICATION FairSpec
CONSTANTS
    Program <- MCBreakProgram
    MaxConds = 3
    MaxLocal = 20
    Deviations = {"break"}
INVARIANT
    RunsAsWritten
CHECK_DEADLOCK FALSE
