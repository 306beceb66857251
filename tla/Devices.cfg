SPECIFICATION ConformSpec
CONSTANTS
    CapacityBlocks = 2
    QemuBlocks = 2
    UnitsPerBlock = 2
    OffsetMod = 16
    MaxSgl = 2
    zero = zero
    a = a
    b = b
    Data <- AllData
    Zero <- ZeroBlock
    UnitData <- AllUnits
    UnitZero = zero
    Absent = absent
    Discarded = discarded
    NoFault = nofault
    Faults <- AllFaults
    Commands <- OracleCommands
    HasBackingFile = TRUE
    NoImage = noimage
    QemuCommands <- AllCommands
INVARIANTS TypeOK QemuTypeOK Conformance
PROPERTIES ImplementsDurableStore QemuImplementsDurableStore
