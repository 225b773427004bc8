SPECIFICATION Spec
CONSTANTS
    MaxStreams = 1
    MaxPackets = 4
    MaxWrites = 2
    RingSize = 1
    BufferSize = 2
    QueueSize = 1
    OutSize = 1
INVARIANTS NoMissedWork NoLostWakeup
PROPERTIES HostBytesInOrder
CHECK_DEADLOCK FALSE
