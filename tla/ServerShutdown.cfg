\* Three streams of one connection with two permits.  The server may end.
CONSTANTS
    c1 = c1
    s1 = s1
    s2 = s2
    s3 = s3
    Conn = {c1}
    Stream = {s1, s2, s3}
    ConnOf <- Owner
    MaxStreams = 2
SPECIFICATION FairSpec
INVARIANTS
    CountersTrackStreams
    DrainAnswerBounded
PROPERTIES
    CancelledStreamsEnd
    StopLeavesNothing
CHECK_DEADLOCK FALSE
