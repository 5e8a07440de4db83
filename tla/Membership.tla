----------------------------- MODULE Membership -----------------------------
(***************************************************************************)
(* The membership table every Percas node keeps (crates/gossip/src/        *)
(* member.rs) and the identities stored in it (crates/gossip/src/node.rs). *)
(*                                                                         *)
(* A table is the BTreeMap<Uuid, MemberState> of the source, written as a  *)
(* total function on Node whose value is None where the map has no entry.  *)
(* The operators are pure: the modules that extend this one keep tables in *)
(* variables.  cluster_id is left out because nothing compares it; the     *)
(* data and control URLs of a node are bound together at start-up, and one *)
(* address stands for both.                                                *)
(***************************************************************************)
EXTENDS Naturals

CONSTANTS
    Node,   \* node ids, one for each data directory (node.json)
    Addr,   \* addresses a process can advertise
    None    \* "no value": an absent entry, peer, reply or file

MemberStatus == {"alive", "dead"}

NodeInfo == [node_id: Node, url: Addr, incarnation: Nat]

MemberState == [info: NodeInfo, status: MemberStatus, heartbeat: Nat]

ASSUME NoneAssumption ==
    /\ None \notin MemberState
    /\ None \notin NodeInfo

(***************************************************************************)
(* Tables: entries are stored under the id they describe.                  *)
(***************************************************************************)
Table ==
    {t \in [Node -> MemberState \cup {None}] :
        \A m \in Node : t[m] # None => t[m].info.node_id = m}

EmptyTable == [m \in Node |-> None]

\* The keys of the map.
Members(table) == {m \in Node : table[m] # None}

\* The identities stored in a table.
TableInfos(table) == {table[m].info : m \in Members(table)}

IsDead(table, id) == table[id] # None /\ table[id].status = "dead"

IsAlive(table, id) == table[id] # None /\ table[id].status = "alive"

-----------------------------------------------------------------------------
(***************************************************************************)
(* Merging one report into the entry it is about.                          *)
(***************************************************************************)

\* MemberStatus::downgrade_to: every pair but (Alive, Alive) takes the other.
DowngradeTo(status, other) ==
    IF status = "alive" /\ other = "alive" THEN status ELSE other

Later(h, k) == IF h >= k THEN h ELSE k

\* The status kept when the report has the entry's own incarnation.
MergeStatus(current, member) ==
    IF member.heartbeat >= current.heartbeat /\ member.status # current.status
    THEN member.status
    ELSE DowngradeTo(current.status, member.status)

MergeSameIncarnation(current, member) ==
    [info      |-> current.info,
     status    |-> MergeStatus(current, member),
     heartbeat |-> Later(current.heartbeat, member.heartbeat)]

\* A merge that lets an older incarnation overwrite a newer one.
MergeAnyIncarnation(current, member) ==
    IF current = None \/ current.info.incarnation # member.info.incarnation
    THEN member
    ELSE MergeSameIncarnation(current, member)

\* A merge that never resolves a tie by heartbeat.
MergeKeepsFirst(current, member) ==
    IF current = None \/ current.info.incarnation < member.info.incarnation
    THEN member
    ELSE current

\* What update_member leaves in the entry for member.info.node_id.
Merge(current, member) ==
    IF current = None \/ current.info.incarnation < member.info.incarnation
    THEN member
    ELSE IF current.info.incarnation > member.info.incarnation
         THEN current
         ELSE MergeSameIncarnation(current, member)

\* A return value that does not notice a newer heartbeat.
ReturnsOnStatusOnly(current, member) ==
    \/ current = None
    \/ current.info.incarnation < member.info.incarnation
    \/ /\ current.info.incarnation = member.info.incarnation
       /\ MergeStatus(current, member) # current.status

\* The Boolean update_member returns.
UpdateReturns(current, member) ==
    \/ current = None
    \/ current.info.incarnation < member.info.incarnation
    \/ /\ current.info.incarnation = member.info.incarnation
       /\ \/ MergeStatus(current, member) # current.status
          \/ Later(current.heartbeat, member.heartbeat) # current.heartbeat

UpdateMember(table, member) ==
    [table EXCEPT ![member.info.node_id] = Merge(@, member)]

\* update_member for every entry of another table.  A table has one entry
\* per id, so the updates touch distinct keys and their order is immaterial.
UpdateMembers(table, members) ==
    [m \in Node |->
        IF members[m] = None THEN table[m] ELSE Merge(table[m], members[m])]

RemoveMembers(table, ids) ==
    [m \in Node |-> IF m \in ids THEN None ELSE table[m]]

=============================================================================
