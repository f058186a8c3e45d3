CONSTANTS
    Requests <- MCRequests
    Blocks = {5, 64}
    Funcs = {2, 64}
    Tries = 2
    MaxCalls = 2
SPECIFICATION Spec
INVARIANTS
    OnlyAsked
    OkMeansWritten
CHECK_DEADLOCK FALSE
