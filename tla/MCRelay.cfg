CONSTANTS
    NumItems = 2
    NoSlot = NoSlot
    MaxFrames = 3
    BufferSize = 2
    CapLens = {1, 3}
    Clock <- MCClock
    SendErrors = FALSE
    PcapFaults = FALSE
    SelectFd = "stdin_ready"
SPECIFICATION Spec
INVARIANTS
    TypeOK
    RoundTrip
    ReceiverInSync

    
