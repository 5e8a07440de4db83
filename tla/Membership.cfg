\* One member, two incarnations, three heartbeats.
CONSTANTS
    n = n
    Node = {n}
    Addr = {a1}
    None = None
    MaxIncarnation = 1
    MaxHeartbeat = 2

SPECIFICATION Spec

INVARIANTS
    EntryIsFreshest
PROPERTIES
    ReturnsWhetherModified
