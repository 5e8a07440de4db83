\* Time passes, and members that are gone for good expire, the last one too:
\* a node that only knows such a member ends up with an empty table.
CONSTANTS
    n1 = n1
    n2 = n2
    a1 = a1
    a2 = a2
    Node = {n1, n2}
    Addr = {a1, a2}
    None = None
    Torn = Torn
    AddrOf <- MCAddrOf
    InitialPeers <- MCOneSeed
    Skew <- MCNoSkew
    Deadline = 0
    MaxRetries = 0
    DiskMayFail = FALSE
    MaxClock = 1
    MaxIncarnation = 0
    MaxInFlight = 2
    MaxHung = 0
    MaxLosses = 0
    MaxLate = 0

SPECIFICATION TimedFairSpec

PROPERTIES
    CrashForgotten

\* Every process may stop, and the bounds end every run.
CHECK_DEADLOCK FALSE
