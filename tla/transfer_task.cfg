SPECIFICATION FairSpec
CONSTANTS
    Kinds = {"file", "dir", "app"}
    FaultKinds = {"file"}
    Faults = {"read", "write", "eof", "short"}
    MaxFiles = 2
    MaxBlocks = 2
    MaxRead = 2
    MaxDirs = 1
    MaxBufs = 2
    DataByte = 2
CHECK_DEADLOCK FALSE
INVARIANTS
    RequestsAreAccounted
    FilesAreClosed
    FinishedIsComplete
PROPERTY
    TransferEnds
