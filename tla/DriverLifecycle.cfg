CONSTANT Depth = 4
SPECIFICATION FairSpec
CHECK_DEADLOCK FALSE
INVARIANTS TypeOK NothingLeaks UsersHoldStorage
PROPERTY RemoveReturns
