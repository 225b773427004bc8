\* A task pairs a dead connection with the id of its replacement.
CONSTANTS
    d = d
    t1 = t1
    t2 = t2
    Task <- TwoTasks
    Dispatcher = d
    NoTask = NoTask
    InitialBackoff = 1
    MaxBackoff = 2
    MaxDeaths = 2
    MaxFails = 0
SPECIFICATION Spec
INVARIANT DialReplacesFailedConnection
