SPECIFICATION FairSpec
CONSTANTS
    Depth = 3
    CidMod = 65536
    FirstCid = 65532
    MaxCommands = 5
    MaxLost = 1
CHECK_DEADLOCK FALSE
INVARIANTS TypeOK ResultIsOwn NoStrayCompletion OneCompletion CompletionRingsAgree
PROPERTIES AdminReturns
