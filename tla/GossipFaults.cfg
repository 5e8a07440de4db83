\* Retries, requests handled after their caller gave up, failing disks and the
\* panics they lead to, and a node whose clock is ahead.
CONSTANTS
    n1 = n1
    n2 = n2
    a1 = a1
    a2 = a2
    Node = {n1, n2}
    Addr = {a1, a2}
    None = None
    Torn = Torn
    AddrOf <- MCAddrOf
    InitialPeers <- MCOneSeed
    Skew <- MCSkew
    Deadline = 0
    MaxRetries = 1
    DiskMayFail = TRUE
    MaxClock = 0
    MaxIncarnation = 1
    MaxInFlight = 1
    MaxHung = 0
    MaxLosses = 2
    MaxLate = 1

SPECIFICATION Spec

INVARIANTS
    TypeOK
    IncarnationOnDisk
    RunningNodeInOwnRing
PROPERTIES
    BootSupersedes
    TableMovesForward
    OnlySelfSuspicion

\* Every process may stop, and the bounds end every run.
CHECK_DEADLOCK FALSE
