SPECIFICATION Spec
CONSTANTS
    Channels = {c1, c2}
    Forwards = {c1}
    MaxTasks = 2
    MaxInits = 1
CHECK_DEADLOCK FALSE
INVARIANT OneThread
