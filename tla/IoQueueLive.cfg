SPECIFICATION FairSpec
CONSTANTS
    Depth = 3
    Shapes <- DataShapes
    MaxSgl = 2
    CapFua = TRUE
    MaxLost = 0
    LateInterrupts = FALSE
    RecoveryMayFail = FALSE
CHECK_DEADLOCK TRUE
INVARIANTS CompletionNotLost PhaseRejectsStale
PROPERTIES StartedEnds RecoveryFinishes
