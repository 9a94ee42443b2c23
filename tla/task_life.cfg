SPECIFICATION FairSpec
CONSTANTS
    Channels = {c1, c2}
    Forwards = {c1}
    MaxTasks = 2
    MaxInits = 2
CHECK_DEADLOCK FALSE
INVARIANTS
    IInv
    
    DeletedIsIdle
    GoneHasNoTask
PROPERTY StoppedIsFreed
