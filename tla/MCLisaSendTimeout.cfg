CONSTANTS
    MsgLen = 2
    MaxIn = 2
    WordBits = 3
    SendTimeouts = TRUE
    LinkFaults = FALSE
    ServerMode = FALSE
    SelectFd = "stdin_any"
SPECIFICATION Spec
PROPERTY
    SendReturns
