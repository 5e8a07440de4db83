\* Two exchanges at a time: steps of two nodes in any order.  One node may
\* come back at another address, also at the one the other had.
CONSTANTS
    n1 = n1
    n2 = n2
    a1 = a1
    a2 = a2
    Node = {n1, n2}
    Addr = {a1, a2, a3}
    None = None
    Torn = Torn
    AddrOf <- MCMoving
    InitialPeers <- MCSeedPeers
    Skew <- MCNoSkew
    Deadline = 0
    MaxRetries = 0
    DiskMayFail = FALSE
    MaxClock = 0
    MaxIncarnation = 1
    MaxInFlight = 2
    MaxHung = 0
    MaxLosses = 1
    MaxLate = 0

SPECIFICATION ViewSpec

INVARIANTS
    IncarnationDeterminesInfo
PROPERTIES
    TableMovesForward
    SuspicionIsCurrent
    ImplementsClusterView
    OnlySelfSuspicion

\* Every process may stop, and the bounds end every run.
CHECK_DEADLOCK FALSE
