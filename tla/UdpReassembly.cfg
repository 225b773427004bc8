\* Three packets share a key, and the count of one of them wraps; a fourth has as many
\* fragments as there may be.
CONSTANTS
    p1 = p1
    p2 = p2
    p3 = p3
    p4 = p4
    a1 = a1
    a2 = a2
    Packet = {p1, p2, p3, p4}
    KeyOf <- SharedKeys
    Address = {a1, a2}
    AddressOf <- Addresses
    Chunks <- Sizes
    U16 = 4
    MaxFragmentCount = 3
    NoAddress = NoAddress
    NoData = NoData
    MaxEvictions = 2
SPECIFICATION ReassemblyFairSpec
INVARIANTS
    EmittedWhole
PROPERTY PacketsAssemble
