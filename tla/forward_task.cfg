SPECIFICATION FairSpec
CONSTANTS
    MaxContexts = 2
    MaxMSec = 1
    MaxData = 1
    ForwardType = "tcp"
    AcceptMayFail = TRUE
    Endings = {"detach", "session", "listener"}
CHECK_DEADLOCK FALSE
INVARIANTS
    RefCountsContexts
    NothingDangles
    DataComesConnected
PROPERTIES
    ForwardEnds
