SPECIFICATION TunFairSpec
CONSTANTS
    Local <- MCLocal
    Shard <- MCShard
    MaxPackets = 3
    MaxAnswers = 1
    QueueSize = 1
    FlowSize = 1
INVARIANTS MapMatchesFlows
PROPERTIES UdpLoopMoves ShutdownEnds
CHECK_DEADLOCK FALSE
