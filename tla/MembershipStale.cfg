\* One member, two incarnations, two heartbeats.
CONSTANTS
    n = n
    Node = {n}
    Addr = {a1}
    None = None
    MaxIncarnation = 1
    MaxHeartbeat = 1

SPECIFICATION Spec

PROPERTIES
    StaleReportKeepsStatus
