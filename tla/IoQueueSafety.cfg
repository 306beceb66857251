SPECIFICATION Spec
CONSTANTS
    Depth = 3
    Shapes <- MixedShapes
    MaxSgl = 2
    CapFua = FALSE
    MaxLost = 1
    LateInterrupts = TRUE
    RecoveryMayFail = TRUE
CHECK_DEADLOCK FALSE
INVARIANTS TypeOK MappingsAccounted StartedHasOneOwner RebuildIsExclusive CompletionIsForItsCommand FetchedCommandIsOwned
