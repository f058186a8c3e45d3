CONSTANTS
    large = large
    aes = aes
    odd = odd
    NoImage = NoImage
    Image = {large, aes}
    Encrypted = {aes}
    Len <- MCLen
    SlotCells = 6
    SectorCells = 3
    AesCells = 2
    MaxMishaps = 1
SPECIFICATION Spec
INVARIANTS
    JumpsToRunnable
