CONSTANTS
    Channels = {0, 2}
    Others = {4}
    Priority <- Priorities
    Unregisters = {2}
    Stops <- StopsOfIpi
    Stale = {1}
    MaxCalls = 4
    MaxRaised = 2
SPECIFICATION Spec
INVARIANTS
    Unwound
    NestsByPriority
    CallsAreOwed
PROPERTY
    Served
CHECK_DEADLOCK FALSE
