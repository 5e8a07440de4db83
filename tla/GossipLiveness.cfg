\* Liveness where an attempt fails only if no process listens, and where two
\* exchanges may hang for ever.
CONSTANTS
    n1 = n1
    n2 = n2
    a1 = a1
    a2 = a2
    Node = {n1, n2}
    Addr = {a1, a2}
    None = None
    Torn = Torn
    AddrOf <- MCAddrOf
    InitialPeers <- MCAllPeers
    Skew <- MCNoSkew
    Deadline = 0
    MaxRetries = 0
    DiskMayFail = FALSE
    MaxClock = 0
    MaxIncarnation = 1
    MaxInFlight = 1
    MaxHung = 2
    MaxLosses = 0
    MaxLate = 0

SPECIFICATION FairSpec

PROPERTIES
    BootstrapEnds
    CrashDetected
    ViewsConverge

\* Every process may stop, and the bounds end every run.
CHECK_DEADLOCK FALSE
