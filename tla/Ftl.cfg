SPECIFICATION Spec
CONSTANTS
    Channels = 1
    DiesPerChannel = 1
    BlocksPerDie = 3
    PagesPerBlock = 2
    GcLowWatermark = 1
    Lpns <- FivePages
    MaxErase = 2
    MaxCheckpoints = 2
CHECK_DEADLOCK FALSE
INVARIANTS TypeOK LiveDataKeptUntilOverlap CheckpointStaysReadable TablesAgree 
