\* All coincidences in two successive cycles, then silence.
CONSTANTS
    ID = {0, 1, 2}
    NoTask = 2
    TimeMod = 4
    TickMod = 8
    Priorities = {0, 2}
    ShortCounts = {1}
    Dividers = {3}
    Masks = {{}}
    ResetMask = {}
    ResetDivider = 100
    FreeClocks = 2
SPECIFICATION BoundedSpec
INVARIANTS
    PendingIsTwoWord
    IrqHasReason
    TypeOK
    ReadyOfferIsMarked
PROPERTIES
    WakeAlwaysTaken
