\* 3 entries, 2 tasks (one of them twice at once is possible), counts 0 .. 2.
CONSTANTS
    DEPTH = 3
    ID = {0, 1}
    NoId = 0
    MaxCount = 2
SPECIFICATION FairSpec
INVARIANTS
    TypeOK
    Packed
    Sorted
PROPERTIES
    KeepsEverySleeper
    ExpiryWakes
    EverySleeperWakes
