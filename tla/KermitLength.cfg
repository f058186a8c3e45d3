CONSTANTS
    NumPackets = 4
    Type <- TransferType
    Size <- TransferSize
    Long = {1}
    Quote <- TransferQuote
    Escaped <- TransferEscaped
    Offset <- TransferOffset
    SeqOf <- TransferSeqOf
    SeqNumbers = {0, 1}
    HeaderNoise = {"length"}
    Patient = TRUE
    MaxNoise = 1
    MaxAnswers = 2
    Overrun = 1
SPECIFICATION Spec
INVARIANTS
    Delivered
CHECK_DEADLOCK FALSE
