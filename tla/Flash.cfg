CONSTANTS
    ChipSize = 16
    SectorSize = 8
    PageSize = 4
    Burst = 3
    WriteSize = 6
    Header <- HeaderEnds
    Lengths = {8, 13}
    MaxJobs = 2
    MaxTimeouts = 2
SPECIFICATION Spec
INVARIANTS
    CommandsTaken
    Written
PROPERTIES
    ImplementsCellStore
    JobEnds
CHECK_DEADLOCK FALSE
