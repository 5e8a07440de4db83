\* Two nodes, three calls by two tasks of a client that may hold an old route
\* table, a write whose caller has given up, and
\* enough reports for a key to change hands and come back.
SPECIFICATION Spec
CONSTANTS
    Node = {1, 2}
    Rank <- MCRank
    MaxHash = 3
    None = None
    Key = {k1}
    KeyHash <- MCKeyHash
    HashesOf <- MCHashesOf
    Value = {v1, v2}
    Task = {t1, t2}
    Late = {l1}
    Methods = {"get", "put", "delete"}
    DataNode = 1
    CtrlNode = 2
    OldListings = {{2}}
    MaxRedirects = 2
    Unknown = Unknown
    MaxCalls = 3
    MaxReports = 2
    MaxStops = 0
    MaxHung = 0
    MaxElapsed = 0
INVARIANT TypeOK
INVARIANT ServedAtOwner
PROPERTY GetSeesLatest
SYMMETRY MCSymmetry
CHECK_DEADLOCK FALSE
