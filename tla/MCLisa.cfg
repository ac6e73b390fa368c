CONSTANTS
    MsgLen = 3
    MaxIn = 3
    WordBits = 3
    SendTimeouts = FALSE
    LinkFaults = TRUE
    ServerMode = FALSE
    SelectFd = "stdin_any"
SPECIFICATION Spec
INVARIANTS
    TypeOK
    NoIOBeforeConnect
    SendAllOrError
