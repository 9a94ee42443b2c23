SPECIFICATION FairSpec
CONSTANTS
    HeadSize = 1
    Sizes = {1, 4}
    BufSize = 3
    SizeWanted = 2
    Capacity = 5
    HostPackets = 2
    DaemonPackets = 1
CHECK_DEADLOCK FALSE
INVARIANTS
    InOrder
    GivenUpForCause
PROPERTY Arrives
