\* A careful host that enables preemption resets the scheduler while a task
\* is ready and not yet dispatched.
CONSTANTS
    ID = {0, 1, 2}
    NoTask = 2
    TimeMod = 4
    TickMod = 4
    Priorities = {0, 1, 2, 3}
    ShortCounts = {1, 2}
    Dividers = {3, 100}
    Masks = {{}}
    ResetMask = {}
    ResetDivider = 100
    PQ_DEPTH = 3
    SQ_DEPTH = 3
    NUM_IRQ = 1
    Boot <- BootPreempting
    Requests <- CarefulRequests
    MaxCmds = 1
    HostGap = 9
    Careful = TRUE
    IrqSets <- NoIrqs
SPECIFICATION Spec
INVARIANTS
    ResetDeassertsIrq
