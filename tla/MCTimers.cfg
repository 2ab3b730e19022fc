\* The bench's own numbers, and a sample of what its registers hold before
\* reset; for the chip's blocks three dividers, the shortest one included,
\* rewritten at any clock, and two lines, up and down at every clock, with
\* any mask.
CONSTANTS
    Divider = 2
    ResetEdges = 3
    CountedEdges = 20
    MinPulses = 4
    ConvergeLimit = 100
    RandomCounters = {0, 1, 2, 40000, 65535}
    Dividers = {0, 1, 3}
    NUM_IRQ = 2
SPECIFICATION TimersSpec
INVARIANTS
    EveryEdgeOnce
    RecordedCoverage
PROPERTIES
    StepsAsRtl
    EndsWithPass
    PulseOnSchedule
    KeepsPulsing
    HeldLineIsReported
