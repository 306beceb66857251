CONSTANT Depth = 4
SPECIFICATION Spec
CHECK_DEADLOCK FALSE
INVARIANT FirstCommandIsSeen
