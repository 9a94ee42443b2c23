SPECIFICATION Spec
CONSTANTS
    s1 = s1
    s2 = s2
    NoSession = NoSession
    Sessions = {s1, s2}
    PoolSize = 2
    MaxDeleted = 1
    MallocNoise = {TRUE, FALSE}
SYMMETRY Symmetry
CHECK_DEADLOCK FALSE
INVARIANTS
    IInv
    WorkerHasSession
    FreedHasNoHandle
    NoLostWakeup
    CachedIdIsDoomed
PROPERTY ContinueWithoutWorker
