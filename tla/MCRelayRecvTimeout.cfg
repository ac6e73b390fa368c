CONSTANTS
    NumItems = 2
    NoSlot = NoSlot
    MaxFrames = 2
    BufferSize = 2
    CapLens = {1, 3}
    Clock <- MCClock
    SendErrors = FALSE
    PcapFaults = FALSE
    SelectFd = "stdin_any"
SPECIFICATION Spec
INVARIANT
    ReceiverInSync
