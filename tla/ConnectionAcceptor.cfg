\* Three clients compete for one permit through a backlog of one.  The server may
\* end with every connection used up.
CONSTANTS
    Conn = {c1, c2, c3}
    MaxConnections = 1
    BacklogSize = 1
SPECIFICATION FairSpec
INVARIANTS
    PermitsConserved
    CountersAgree
PROPERTIES
    LostConnectionEnds
CHECK_DEADLOCK FALSE
