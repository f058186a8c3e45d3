CONSTANTS
    NumPackets = 4
    Type <- TransferType
    Size <- TransferSize
    Long = {1}
    Quote <- TransferQuote
    Escaped <- TransferEscaped
    Offset <- TransferOffset
    SeqOf <- TransferSeqOf
    SeqNumbers = {0, 1}
    HeaderNoise = {}
    Patient = TRUE
    MaxNoise = 3
    MaxAnswers = 2
    Overrun = 1
SPECIFICATION Spec
INVARIANTS
    AcknowledgedKept
    Delivered
    RolledBack
CHECK_DEADLOCK FALSE
