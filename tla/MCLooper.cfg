\* The looper terminates after looper_stop: the final state has no successor.
CONSTANTS
    MaxCalls = 6
    Nowait = FALSE
SPECIFICATION Spec
CHECK_DEADLOCK FALSE
INVARIANTS
    PauseFreezes
    RunningMeansStepped
    FinalSeesLast
PROPERTIES
    CallsReturn
