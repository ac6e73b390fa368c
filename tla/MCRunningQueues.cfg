SPECIFICATION Spec
\* The process exits after the signal handler; nothing runs after that.
CHECK_DEADLOCK FALSE
INVARIANTS
    StopAllStopsAll
