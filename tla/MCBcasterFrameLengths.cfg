CONSTANTS
    c1 = c1
    c2 = c2
    c3 = c3
    NoFd = NoFd
    Clients = {c1, c2}
    Script <- ScriptLengths
    InitFds <- FdsSteady
    MaxSize = 4
    MAX_CLIENTS = 10
    ListenFaults = FALSE
SPECIFICATION Spec
INVARIANT
    FramesIntact
