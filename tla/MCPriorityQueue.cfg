\* 3 cells, 2 tasks, 3 keys: ties, full, empty and both-at-once all occur.
CONSTANTS
    DEPTH = 3
    ID = {0, 1}
    NoId = 0
    MaxKey = 2
SPECIFICATION Spec
INVARIANTS
    TypeOK
    QueueInvariant
PROPERTIES
    ServesLargestKey InsertsBehindEquals
