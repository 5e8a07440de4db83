\* Three members with two virtual nodes each on a circle of four hashes:
\* collisions within a node, between nodes, and keys on either side of zero.
SPECIFICATION Spec
CONSTANTS
    Node = {1, 2, 3}
    Rank <- MCRank
    MaxHash = 3
    VNodes = 2
    None = None
INVARIANT LookupFindsOwner
INVARIANT RingDependsOnMembersOnly
PROPERTY JoinTakesOnly
