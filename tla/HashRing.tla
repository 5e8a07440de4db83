------------------------------ MODULE HashRing ------------------------------
(***************************************************************************)
(* The consistent hash ring (crates/gossip/src/ring.rs) and the client's   *)
(* copy of it, the RouteTable (client/src/route.rs).                       *)
(*                                                                         *)
(* Both are maps from hashes to sets of ids, ordered by hash and then by   *)
(* id; here a total function on Hash, empty where the map has no entry.    *)
(* The hash functions are left open: a key is its hash, and the hashes of  *)
(* a node's virtual nodes are a parameter, so that whatever is shown holds *)
(* for MurmurHash3 and for its collisions too.                             *)
(***************************************************************************)
EXTENDS Naturals

CONSTANTS
    Node,      \* node ids
    Rank,      \* Rank[n]: the place of n in the order of ids (Uuid: Ord)
    MaxHash,   \* the largest hash, 2^32 - 1 in the code
    None       \* "no node"

ASSUME RingAssumption ==
    /\ Rank \in [Node -> Nat]
    /\ \A m, n \in Node : Rank[m] = Rank[n] => m = n
    /\ MaxHash \in Nat
    /\ None \notin Node

Hash == 0..MaxHash

Ring == [Hash -> SUBSET Node]

EmptyRing == [h \in Hash |-> {}]

Least(hashes) == CHOOSE h \in hashes : \A k \in hashes : h <= k

\* The first id of a BTreeSet.
FirstOf(ids) == CHOOSE m \in ids : \A n \in ids : Rank[m] <= Rank[n]

-----------------------------------------------------------------------------

\* An add_node that replaces the ids of an occupied hash.
AddNodeReplaces(ring, id, hashes) ==
    [h \in Hash |-> IF h \in hashes THEN {id} ELSE ring[h]]

\* add_node, with `hashes' the hashes of the node's virtual nodes.
AddNode(ring, id, hashes) ==
    [h \in Hash |-> IF h \in hashes THEN ring[h] \cup {id} ELSE ring[h]]

\* HashRing::from: every node is added to an empty ring.
RingFrom(ids, hashesOf) == [h \in Hash |-> {n \in ids : h \in hashesOf[n]}]

\* find_map over the entries at `hashes', in ascending order.
Scan(ring, hashes, ids) ==
    LET hits == {h \in hashes : ring[h] \cap ids # {}}
    IN  IF hits = {} THEN None ELSE FirstOf(ring[Least(hits)] \cap ids)

\* range(h..) and range(..=h).
RangeFrom(h) == {k \in Hash : k >= h}
RangeTo(h) == {k \in Hash : k <= h}

Lookup(ring, h) ==
    IF Scan(ring, RangeFrom(h), Node) # None
    THEN Scan(ring, RangeFrom(h), Node)
    ELSE Scan(ring, Hash, Node)

\* A lookup_until that does not wrap around.
LookupNoWrap(ring, h, ids) == Scan(ring, RangeFrom(h), ids)

\* lookup_until, with `ids' the ids that satisfy the predicate.
LookupUntil(ring, h, ids) ==
    IF Scan(ring, RangeFrom(h), ids) # None
    THEN Scan(ring, RangeFrom(h), ids)
    ELSE Scan(ring, RangeTo(h), ids)

\* An insert that replaces the ids of an occupied hash.
InsertReplaces(table, hash, id) == [table EXCEPT ![hash] = {id}]

\* RouteTable::insert.
Insert(table, hash, id) == [table EXCEPT ![hash] = @ \cup {id}]

\* RouteTable::lookup.
RouteLookup(table, h) ==
    LET later == {k \in RangeFrom(h) : table[k] # {}}
        all   == {k \in Hash : table[k] # {}}
    IN  IF later # {} THEN FirstOf(table[Least(later)])
        ELSE IF all # {} THEN FirstOf(table[Least(all)])
        ELSE None

-----------------------------------------------------------------------------
(***************************************************************************)
(* What a lookup is for: the way from a key to its node is the clockwise   *)
(* distance on the circle of hashes.                                       *)
(***************************************************************************)
Distance(h, k) == IF k >= h THEN k - h ELSE k + (MaxHash + 1) - h

InRing(ring, ids) == \E k \in Hash : ring[k] \cap ids # {}

\* id is the first of `ids' met clockwise from h; among several at one hash,
\* the first in the order of ids.
IsOwner(ring, h, ids, id) ==
    \E k \in Hash :
        /\ id \in ring[k] \cap ids
        /\ \A l \in Hash : ring[l] \cap ids # {} => Distance(h, k) <= Distance(h, l)
        /\ \A n \in ring[k] \cap ids : Rank[id] <= Rank[n]

=============================================================================
