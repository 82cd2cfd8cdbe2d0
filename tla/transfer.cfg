SPECIFICATION FairSpec
CONSTANTS
    NumChunks = 3
    MaxRetries = 1
INVARIANTS
    TypeOK
    AckedWritten
    OneReader
PROPERTIES
    ImplementsCopy
    TransferEnds
CHECK_DEADLOCK FALSE
