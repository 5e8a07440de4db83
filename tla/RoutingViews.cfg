\* Three nodes, a call of a client with an old route table, a stop and a
\* restart, and enough reports for the survivors to learn of a stop.
SPECIFICATION FairSpec
CONSTANTS
    Node = {1, 2, 3}
    Rank <- MCRank
    MaxHash = 3
    None = None
    Key = {k1}
    KeyHash <- MCKeyHash
    HashesOf <- MCHashesOf
    Value = {v1}
    Task = {t1}
    Late = {}
    Methods = {"get", "put_owned"}
    DataNode = 1
    CtrlNode = 2
    OldListings = {{2}}
    MaxRedirects = 2
    Unknown = Unknown
    MaxCalls = 1
    MaxReports = 2
    MaxStops = 1
    MaxHung = 1
    MaxElapsed = 1
INVARIANT RedirectLeadsToOwner
INVARIANT ServedAtOwner
PROPERTY FreshTableFindsOwner
PROPERTY CallsEnd
CHECK_DEADLOCK FALSE
