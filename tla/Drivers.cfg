CONSTANTS
    Freqs = {0, 7, 195, 400}
    Devices = {"SHA", "SPI3"}
    Thresholds = {"TIMER0"}
    Values = {1, 2, 7, 260}
    ResetDividers <- MCResetDividers
    MaxCalls = 3
    FPIOA_NUM_IO = 3
    Routes = {16, 26, 120}
    Inputs = {16}
    Gpios = {2}
    MaxPinsCalls = 3
    Depth = 5
    Chunk = 5
    CmdLength = 2
    Slack = 2
    SpiLengths = {0, 1, 2, 3, 4, 5, 7, 8, 9, 11}
    Sizes = {1, 3, 4, 13, 16, 32, 79, 80, 82, 96, 163}
    OutRoom = 20
    CBSIZE = 9
    MAXARGS = 4
    Chars <- MCChars
    MessageSizes <- MCMessageSizes
    PieceSizes = {1, 4, 7, 59, 64, 65}
    CrcBytes <- MCCrcBytes
    MaxCrcBytes = 3
    Accesses <- MCAccesses
SPECIFICATION DriversSpec
INVARIANTS
    NothingStarves
    SetAsAsked
    RoutedAlone
    DriveAsAsked
    TransferWhole
    Deciphered
    ScreenShowsLine
    RunsAsTyped
    DigestRight
    CrcRight
    Emulated
PROPERTIES
    TiedAsTable
    TransferDone
CHECK_DEADLOCK FALSE
