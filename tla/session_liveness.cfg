SPECIFICATION FairSpec
CONSTANTS
    s1 = s1
    s2 = s2
    NoSession = NoSession
    Sessions = {s1, s2}
    PoolSize = 2
    MaxDeleted = 2
    MallocNoise = {FALSE}
CHECK_DEADLOCK FALSE
PROPERTIES
    SessionsEnd
    MainComesBack
    ImplementsLife
