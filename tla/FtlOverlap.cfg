SPECIFICATION Spec
CONSTANTS
    Channels = 2
    DiesPerChannel = 1
    BlocksPerDie = 2
    PagesPerBlock = 2
    GcLowWatermark = 1
    Lpns <- ThreePages
    MaxErase = 3
    MaxCheckpoints = 0
CHECK_DEADLOCK FALSE
INVARIANTS LiveDataKept
