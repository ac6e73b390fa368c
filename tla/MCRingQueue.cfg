CONSTANTS
    NumItems = 4
    MaxPut = 13
    NoSlot = NoSlot
SPECIFICATION Spec
INVARIANTS
    TypeOK
    NoSharedSlot
PROPERTIES
    FifoSpec
    AllConsumed
