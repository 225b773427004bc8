\* Three sessions, two of them in one shard; channels overflow.  The system may end,
\* with every session closed and the dispatcher stopped.
CONSTANTS
    Sessions = 3
    Shard <- SharedShard
    ChannelSize = 1
    MaxArrivals = 2
    InitialDelay = 1
    MaxDelay = 2
SPECIFICATION FairSpec
INVARIANTS
    MapTracksSessions
    ReceiverOutlivesSend
PROPERTIES
    DropCompletesUnlessWedged
    ShutdownStops
CHECK_DEADLOCK FALSE
