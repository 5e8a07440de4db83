-------------------------- MODULE MembershipProofs --------------------------
(***************************************************************************)
(* Facts about the operators of Membership, for every Node, Addr and None. *)
(***************************************************************************)
EXTENDS Membership, TLAPS

\* update_member turns an entry into an entry about the same node, and takes
\* the identity from the entry or from the report, from no third place.
LEMMA MergeType ==
    ASSUME NEW entry \in MemberState \cup {None}, NEW member \in MemberState,
           entry # None => entry.info.node_id = member.info.node_id
    PROVE  /\ Merge(entry, member) \in MemberState
           /\ Merge(entry, member) # None
           /\ Merge(entry, member).info.node_id = member.info.node_id
           /\ \/ Merge(entry, member).info = member.info
              \/ entry # None /\ Merge(entry, member).info = entry.info
  <1>1. CASE entry = None
    BY <1>1, NoneAssumption DEF Merge
  <1>2. CASE entry # None
    <2>1. entry \in MemberState
      BY <1>2
    <2>2. MergeSameIncarnation(entry, member) \in MemberState
      BY <2>1 DEF MergeSameIncarnation, MergeStatus, DowngradeTo, Later,
                  MemberState, MemberStatus
    <2>3. MergeSameIncarnation(entry, member).info = entry.info
      BY DEF MergeSameIncarnation
    <2> QED
      BY <1>2, <2>1, <2>2, <2>3, NoneAssumption DEF Merge
  <1> QED
    BY <1>1, <1>2

\* What update_member does to an entry it already has: the incarnation never
\* decreases, and at an unchanged incarnation the identity stays and the
\* heartbeat never decreases (the merge rules of update_member).
LEMMA MergeMovesForward ==
    ASSUME NEW entry \in MemberState, NEW member \in MemberState
    PROVE  \/ Merge(entry, member).info.incarnation > entry.info.incarnation
           \/ /\ Merge(entry, member).info = entry.info
              /\ Merge(entry, member).heartbeat >= entry.heartbeat
  <1>1. /\ entry # None
        /\ entry.info.incarnation \in Nat /\ member.info.incarnation \in Nat
        /\ entry.heartbeat \in Nat /\ member.heartbeat \in Nat
    BY NoneAssumption DEF MemberState, NodeInfo
  <1>2. MergeSameIncarnation(entry, member).info = entry.info
    BY DEF MergeSameIncarnation
  <1>3. MergeSameIncarnation(entry, member).heartbeat >= entry.heartbeat
    BY <1>1 DEF MergeSameIncarnation, Later
  <1> QED
    BY <1>1, <1>2, <1>3 DEF Merge

\* A table is updated into a table.
LEMMA UpdateMemberType ==
    ASSUME NEW table \in Table, NEW member \in MemberState
    PROVE  /\ UpdateMember(table, member) \in Table
           /\ Members(UpdateMember(table, member)) =
                 Members(table) \cup {member.info.node_id}
           /\ TableInfos(UpdateMember(table, member)) \subseteq
                 TableInfos(table) \cup {member.info}
  <1> DEFINE id == member.info.node_id
             new == UpdateMember(table, member)
  <1>1. id \in Node
    BY DEF MemberState, NodeInfo
  <1>2. /\ table \in [Node -> MemberState \cup {None}]
        /\ \A m \in Node : table[m] # None => table[m].info.node_id = m
    BY DEF Table
  <1>3. /\ Merge(table[id], member) \in MemberState
        /\ Merge(table[id], member) # None
        /\ Merge(table[id], member).info.node_id = id
        /\ \/ Merge(table[id], member).info = member.info
           \/ table[id] # None /\ Merge(table[id], member).info = table[id].info
    BY <1>1, <1>2, MergeType
  <1>4. /\ new \in [Node -> MemberState \cup {None}]
        /\ new[id] = Merge(table[id], member)
        /\ \A m \in Node : m # id => new[m] = table[m]
    BY <1>1, <1>2, <1>3 DEF UpdateMember
  <1>5. new \in Table
    BY <1>2, <1>3, <1>4 DEF Table
  <1>6. Members(new) = Members(table) \cup {id}
    BY <1>1, <1>3, <1>4 DEF Members
  <1>7. ASSUME NEW m \in Members(new)
        PROVE  new[m].info \in TableInfos(table) \cup {member.info}
    BY <1>1, <1>3, <1>4 DEF Members, TableInfos
  <1> QED
    BY <1>5, <1>6, <1>7 DEF TableInfos

\* The same for the entries of a whole table, as a Sync brings them.
LEMMA UpdateMembersType ==
    ASSUME NEW table \in Table, NEW members \in Table
    PROVE  /\ UpdateMembers(table, members) \in Table
           /\ TableInfos(UpdateMembers(table, members)) \subseteq
                 TableInfos(table) \cup TableInfos(members)
  <1> DEFINE new == UpdateMembers(table, members)
  <1>1. /\ table \in [Node -> MemberState \cup {None}]
        /\ \A m \in Node : table[m] # None => table[m].info.node_id = m
        /\ members \in [Node -> MemberState \cup {None}]
        /\ \A m \in Node : members[m] # None => members[m].info.node_id = m
    BY DEF Table
  <1>2. ASSUME NEW m \in Node
        PROVE  /\ new[m] \in MemberState \cup {None}
               /\ new[m] # None => new[m].info.node_id = m
               /\ new[m] # None =>
                     \/ table[m] # None /\ new[m].info = table[m].info
                     \/ members[m] # None /\ new[m].info = members[m].info
    <2>1. CASE members[m] = None
      BY <1>1, <2>1 DEF UpdateMembers
    <2>2. CASE members[m] # None
      <3>1. members[m] \in MemberState /\ table[m] \in MemberState \cup {None}
        BY <1>1, <2>2
      <3>2. table[m] # None => table[m].info.node_id = members[m].info.node_id
        BY <1>1, <2>2
      <3>3. new[m] = Merge(table[m], members[m])
        BY <2>2 DEF UpdateMembers
      <3>4. /\ Merge(table[m], members[m]) \in MemberState
            /\ Merge(table[m], members[m]).info.node_id = members[m].info.node_id
            /\ \/ Merge(table[m], members[m]).info = members[m].info
               \/ /\ table[m] # None
                  /\ Merge(table[m], members[m]).info = table[m].info
        BY <3>1, <3>2, MergeType
      <3> HIDE DEF new
      <3> QED
        BY <1>1, <2>2, <3>3, <3>4
    <2> QED
      BY <2>1, <2>2
  <1>3. new \in [Node -> MemberState \cup {None}]
    BY <1>2 DEF UpdateMembers
  <1>4. new \in Table
    BY <1>2, <1>3 DEF Table
  <1>5. ASSUME NEW m \in Members(new)
        PROVE  new[m].info \in TableInfos(table) \cup TableInfos(members)
    BY <1>2 DEF Members, TableInfos
  <1> QED
    BY <1>4, <1>5 DEF TableInfos

\* Removing entries leaves the others as they are.
LEMMA RemoveMembersType ==
    ASSUME NEW table \in Table, NEW ids \in SUBSET Node
    PROVE  /\ RemoveMembers(table, ids) \in Table
           /\ TableInfos(RemoveMembers(table, ids)) \subseteq TableInfos(table)
  <1> DEFINE new == RemoveMembers(table, ids)
  <1>1. /\ new \in [Node -> MemberState \cup {None}]
        /\ \A m \in Node : new[m] # None => new[m] = table[m]
    BY DEF RemoveMembers, Table
  <1>2. new \in Table
    BY <1>1 DEF Table
  <1>3. ASSUME NEW m \in Members(new)
        PROVE  new[m].info \in TableInfos(table)
    BY <1>1 DEF Members, TableInfos
  <1> QED
    BY <1>2, <1>3 DEF TableInfos

\* Membership::default() is a table without members.
LEMMA EmptyTableType == EmptyTable \in Table /\ Members(EmptyTable) = {}
  BY DEF EmptyTable, Table, Members

=============================================================================
