SPECIFICATION FairSpec
CONSTANTS
    Depth = 2
    Shapes <- DataShapes
    MaxSgl = 2
    CapFua = TRUE
    MaxLost = 1
    LateInterrupts = FALSE
    RecoveryMayFail = FALSE
CHECK_DEADLOCK FALSE
PROPERTIES TimedOutEnds
