SPECIFICATION FairSpec
CONSTANTS
    c1 = c1
    c2 = c2
    s1 = s1
    s2 = s2
    NoSession = NoSession
    NoChannel = NoChannel
    Channels = {c1}
    Sessions = {s1, s2}
    MaxWrites = 1
    OpenMayFail = FALSE
CHECK_DEADLOCK FALSE
PROPERTIES
    ChannelsEnd
    BoundIsAttached
