SPECIFICATION FairSpec
CONSTANTS
    s1 = s1
    s2 = s2
    Kind = {"socks", "http", "tun"}
    Sender <- MCSender
    NoSender = NoSender
    MaxRequests = 3
    MaxDatagrams = 2
    MaxBytes = 2
    BufSize = 2
    Window = 1
INVARIANTS FirstToEndIsWhole ReplyReflectsDial
PROPERTIES RelayInOrder RelayEnds AssociationEnds
CHECK_DEADLOCK FALSE
