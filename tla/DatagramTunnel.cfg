\* Three packets for two sessions, one permit, two evictions.  The tunnel may end.
CONSTANTS
    p1 = p1
    p2 = p2
    p3 = p3
    d1 = d1
    d2 = d2
    Packet = {p1, p2, p3}
    SessionOf <- Owner
    DomainOf <- Target
    PortOf <- Port
    MaxHandlers = 1
    BindRetries = 2
    MaxEvictions = 2
    NoPacket = NoPacket
    NoAddress = NoAddress
SPECIFICATION TunnelFairSpec
INVARIANTS
    LoopsMatchSessions
PROPERTIES
    PacketsHandled
    CancelStopsTasks
CHECK_DEADLOCK FALSE
