\* Any host: at most two calls, or halves of a call, at any clock and as fast
\* as the bus allows; sleeps of one to three ticks.
CONSTANTS
    ID = {0, 1, 2}
    NoTask = 2
    TimeMod = 4
    TickMod = 4
    Priorities = {0, 1, 2, 3}
    ShortCounts = {1, 2, 3}
    Dividers = {3, 100}
    Masks = {{}}
    ResetMask = {}
    ResetDivider = 100
    PQ_DEPTH = 3
    SQ_DEPTH = 3
    NUM_IRQ = 1
    Boot <- BootSleeper
    Requests <- FreeRequests
    MaxCmds = 2
    HostGap = 1
    Careful = FALSE
    IrqSets <- NoIrqs
SPECIFICATION FairTimedSpec
INVARIANTS
    WakesOnTime
PROPERTIES
    SleeperBecomesReady
    TicksAreCounted
    DeliversEveryWord
    BlocksInPlace
