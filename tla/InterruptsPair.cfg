CONSTANTS
    Channels = {0, 1, 2}
    Others = {4}
    Priority <- Priorities
    Unregisters = {0}
    Stops <- StopsOfIpi
    Stale = {1}
    MaxCalls = 4
    MaxRaised = 3
SPECIFICATION Spec
INVARIANT
    RegisteredIsRouted
CHECK_DEADLOCK FALSE
