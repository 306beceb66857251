SPECIFICATION Spec
CONSTANTS
    Depth = 2
    Shapes <- FuaShapes
    MaxSgl = 2
    CapFua = TRUE
    MaxLost = 0
    LateInterrupts = FALSE
    RecoveryMayFail = FALSE
CHECK_DEADLOCK TRUE
INVARIANTS FuaDurable
