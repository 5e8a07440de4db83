\* A node that loses a request to itself, and time.
CONSTANTS
    n1 = n1
    n2 = n2
    a1 = a1
    a2 = a2
    Node = {n1, n2}
    Addr = {a1, a2}
    None = None
    Torn = Torn
    AddrOf <- MCAddrOf
    InitialPeers <- MCSeedPeers
    Skew <- MCNoSkew
    Deadline = 0
    MaxRetries = 0
    DiskMayFail = FALSE
    MaxClock = 1
    MaxIncarnation = 0
    MaxInFlight = 1
    MaxHung = 0
    MaxLosses = 1
    MaxLate = 0

SPECIFICATION Spec

INVARIANTS
    NoLoopDies

\* Every process may stop, and the bounds end every run.
CHECK_DEADLOCK FALSE
