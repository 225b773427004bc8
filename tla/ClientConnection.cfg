\* Two tasks, two mortal connections, two failed attempts.
CONSTANTS
    d = d
    t1 = t1
    t2 = t2
    Task <- TwoTasks
    Dispatcher = d
    NoTask = NoTask
    InitialBackoff = 3
    MaxBackoff = 6
    MaxDeaths = 2
    MaxFails = 2
SPECIFICATION FairSpec
INVARIANTS
    OneDialler
    IdCountsConnections
    RetryAdvances
    ThrottleCoherent
PROPERTIES
    AttemptsSpaced
    LostConnectionReplaced
    ReconnectAnswers
