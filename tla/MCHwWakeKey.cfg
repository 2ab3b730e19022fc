\* The key of a woken task, careful host.
CONSTANTS
    ID = {0, 1, 2}
    NoTask = 2
    TimeMod = 4
    TickMod = 4
    Priorities = {0, 1, 2, 3}
    ShortCounts = {1, 2}
    Dividers = {3, 100}
    Masks = {{}}
    ResetMask = {}
    ResetDivider = 100
    PQ_DEPTH = 3
    SQ_DEPTH = 3
    NUM_IRQ = 1
    Boot <- BootReady
    Requests <- CarefulRequests
    MaxCmds = 7
    HostGap = 9
    Careful = TRUE
    IrqSets <- NoIrqs
SPECIFICATION Spec
INVARIANTS
    ReadyKeysOwn
