CONSTANTS
    InitTime = 2
    SetupTime = 2
    BannerTime = 8
    PrintTime = 5
    Quick = 1
    EntrySkewMin = 3
    EntrySkewMax = 17
SPECIFICATION Spec
INVARIANTS
    EntersInitialised
    RunsOwnCode
PROPERTIES
    IpiIsHeard
    BothCoresJump
