\* Two lost attempts, and a network that works from then on.
CONSTANTS
    n1 = n1
    n2 = n2
    a1 = a1
    a2 = a2
    Node = {n1, n2}
    Addr = {a1, a2}
    None = None
    Torn = Torn
    AddrOf <- MCAddrOf
    InitialPeers <- MCSeedPeers
    Skew <- MCNoSkew
    Deadline = 0
    MaxRetries = 0
    DiskMayFail = FALSE
    MaxClock = 0
    MaxIncarnation = 0
    MaxInFlight = 1
    MaxHung = 0
    MaxLosses = 2
    MaxLate = 0

SPECIFICATION FairSpec

PROPERTIES
    SplitIsHealed

\* Every process may stop, and the bounds end every run.
CHECK_DEADLOCK FALSE
