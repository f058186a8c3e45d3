CONSTANTS
    NumPackets = 4
    Type <- TransferType
    Size <- TransferSize
    Long = {1}
    Quote <- TransferQuote
    Escaped <- TransferEscaped
    Offset <- TransferOffset
    SeqOf <- TransferSeqOf
    SeqNumbers = {0, 1}
    HeaderNoise = {"length", "seq"}
    Patient = FALSE
    MaxNoise = 2
    MaxAnswers = 2
    Overrun = 5
SPECIFICATION Spec
INVARIANTS
    TypeOK
PROPERTIES
    TransferEnds
CHECK_DEADLOCK FALSE
