CONSTANTS
    ID = {0, 1, 2, 3}
    NoTask = 3
    TimeMod = 4
    TickMod = 4
    Priorities = {0, 1, 2}
    ShortCounts = {1}
    Dividers = {1}
    Masks <- AllFast
    ResetMask <- Mask
    ResetDivider = 1
    PQ_DEPTH = 3
    SQ_DEPTH = 3
    NUM_IRQ = 1
    Boot <- BootCalls
    Requests = {}
    MaxCmds = 0
    HostGap = 4
    Careful = FALSE
    IrqSets <- AnyIrq
    T1 <- Task1
    T2 <- Task2
    TickDivider = 1
    MODE_EDF = 2
SPECIFICATION FwSpec
PROPERTIES
    EdgeIsServed
    FirstIsNearest
    EveryTaskRuns
