CONSTANTS
    large = large
    aes = aes
    odd = odd
    NoImage = NoImage
    Image = {large, aes, odd}
    Encrypted = {aes, odd}
    Len <- MCLen
    SlotCells = 6
    SectorCells = 3
    AesCells = 2
    MaxMishaps = 2
SPECIFICATION Spec
INVARIANTS
    JumpsToChecked
    DigestsTell
    JumpRedundant
    BackupTriedIfDiffers
PROPERTIES
    LastGoodKept
    GoodAppUntouched
