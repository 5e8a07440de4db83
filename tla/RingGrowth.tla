----------------------------- MODULE RingGrowth -----------------------------
(***************************************************************************)
(* Rings and route tables that grow member by member, for every placement  *)
(* of the virtual nodes, the colliding ones included.                      *)
(***************************************************************************)
EXTENDS HashRing

CONSTANT VNodes   \* virtual nodes per node, 64 in the code

ASSUME VNodesAssumption == VNodes \in Nat

VARIABLES
    hashesOf,   \* hashesOf[n][i]: the hash of n's i-th virtual node
    added,      \* the members added so far
    ring,       \* a node's ring
    routeTable  \* a client's table of the same members

vars == <<hashesOf, added, ring, routeTable>>

HashSet(n) == {hashesOf[n][i] : i \in 1..VNodes}

Init ==
    /\ hashesOf \in [Node -> [1..VNodes -> Hash]]
    /\ added = {}
    /\ ring = EmptyRing
    /\ routeTable = EmptyRing

\* The client inserts one virtual node after the other.
InsertAll(table, id) ==
    LET done[i \in 0..VNodes] ==
            IF i = 0 THEN table ELSE Insert(done[i - 1], hashesOf[id][i], id)
    IN  done[VNodes]

Add(id) ==
    /\ added' = added \cup {id}
    /\ ring' = AddNode(ring, id, HashSet(id))
    /\ routeTable' = InsertAll(routeTable, id)
    /\ UNCHANGED hashesOf

Next == \E id \in Node : Add(id)

Spec == Init /\ [][Next]_vars

-----------------------------------------------------------------------------

\* A lookup finds the live member that comes first clockwise, whichever
\* members are live, across the wrap-around and with several nodes at one
\* hash; it finds nothing only if no live member is in the ring.
LookupFindsOwner ==
    \A h \in Hash :
        /\ \A ids \in SUBSET Node :
              IF InRing(ring, ids)
              THEN IsOwner(ring, h, ids, LookupUntil(ring, h, ids))
              ELSE LookupUntil(ring, h, ids) = None
        /\ Lookup(ring, h) = LookupUntil(ring, h, Node)

\* A member that joins takes keys over, and nobody else does: no key moves
\* between two old members.
JoinTakesOnly ==
    [][\A h \in Hash, ids \in SUBSET Node :
          LookupUntil(ring', h, ids) \in {LookupUntil(ring, h, ids)} \cup (added' \ added)]_vars

\* However the members were added, the ring is the one that HashRing::from
\* builds, so nodes that know the same members agree on every key; and the
\* client's table sends every key where a ring without dead members would.
RingDependsOnMembersOnly ==
    /\ ring = RingFrom(added, [n \in Node |-> HashSet(n)])
    /\ \A h \in Hash : RouteLookup(routeTable, h) = Lookup(ring, h)

=============================================================================
