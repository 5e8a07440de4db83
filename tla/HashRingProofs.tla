--------------------------- MODULE HashRingProofs ---------------------------
(***************************************************************************)
(* Proofs about the hash ring, for every number of nodes and hashes and    *)
(* every placement of the virtual nodes.                                   *)
(***************************************************************************)
EXTENDS RingGrowth, RingLemmas

(***************************************************************************)
(* The inductive invariant: the ring holds exactly the virtual nodes of    *)
(* the members added, and the client's table is the same map.              *)
(***************************************************************************)
RingInv ==
    /\ hashesOf \in [Node -> [1..VNodes -> Hash]]
    /\ added \in SUBSET Node
    /\ ring = RingFrom(added, [n \in Node |-> HashSet(n)])
    /\ routeTable = ring

\* The ring as a function of the members added.
LEMMA RingInvType ==
    ASSUME RingInv
    PROVE  /\ ring \in Ring
           /\ \A h \in Hash : ring[h] = {n \in added : h \in HashSet(n)}
  BY DEF RingInv, RingFrom, Ring

\* The client's loop over the virtual nodes of a member, whatever their hashes
\* and however many of them collide, inserts what add_node inserts.  (A loop
\* that is first wrong after i turns is right after i - 1.)
LEMMA InsertAllIsAddNode ==
    ASSUME NEW table \in Ring, NEW id \in Node,
           hashesOf \in [Node -> [1..VNodes -> Hash]]
    PROVE  InsertAll(table, id) = AddNode(table, id, HashSet(id))
  <1> DEFINE Upto(i)  == {hashesOf[id][j] : j \in 1..i}
             Grown    == [i \in 0..VNodes |-> AddNode(table, id, Upto(i))]
             Turns(f) == [i \in 0..VNodes |->
                            IF i = 0 THEN table ELSE Insert(f[i - 1], hashesOf[id][i], id)]
             done     == CHOOSE f : f = Turns(f)
             wrong    == {i \in 0..VNodes : done[i] # Grown[i]}
  <1>0. VNodes \in Nat
    BY VNodesAssumption
  <1>1. Grown[0] = table
    <2>1. Upto(0) = {}
      OBVIOUS
    <2>2. AddNode(table, id, {}) = table
      BY DEF AddNode, Ring
    <2> HIDE DEF Upto
    <2> QED
      BY <1>0, <2>1, <2>2
  <1>2. ASSUME NEW i \in 1..VNodes
        PROVE  Insert(Grown[i - 1], hashesOf[id][i], id) = Grown[i]
    <2>1. i - 1 \in 0..VNodes /\ i \in 0..VNodes /\ hashesOf[id][i] \in Hash
      BY <1>0
    <2>2. Upto(i) = Upto(i - 1) \cup {hashesOf[id][i]}
      <3>1. 1..i = (1..(i - 1)) \cup {i}
        BY <1>0
      <3> QED
        BY <3>1
    <2> HIDE DEF Upto
    <2>3. /\ Grown[i - 1] = AddNode(table, id, Upto(i - 1))
          /\ Grown[i] = AddNode(table, id, Upto(i - 1) \cup {hashesOf[id][i]})
      BY <2>1, <2>2
    <2> QED
      BY <2>1, <2>3 DEF AddNode, Insert
  <1>3. Grown = Turns(Grown)
    <2>1. ASSUME NEW i \in 0..VNodes
          PROVE  Grown[i] = IF i = 0 THEN table
                            ELSE Insert(Grown[i - 1], hashesOf[id][i], id)
      <3>1. CASE i = 0
        BY <1>1, <3>1
      <3>2. CASE i # 0
        <4>1. i \in 1..VNodes
          BY <1>0, <3>2
        <4> HIDE DEF Grown
        <4> QED
          BY <1>2, <3>2, <4>1
      <3> QED
        BY <3>1, <3>2
    <2>2. Grown = [i \in 0..VNodes |-> Grown[i]]
      OBVIOUS
    <2> HIDE DEF Grown
    <2> QED
      BY <2>1, <2>2
  <1>4. done = Turns(done)
    <2> HIDE DEF Grown, Turns
    <2> QED
      BY <1>3
  <1>5. /\ done[0] = table
        /\ \A i \in 1..VNodes : done[i] = Insert(done[i - 1], hashesOf[id][i], id)
    <2> HIDE DEF done
    <2>1. \A i \in 0..VNodes : done[i] = IF i = 0 THEN table
                                ELSE Insert(done[i - 1], hashesOf[id][i], id)
      BY <1>4
    <2> QED
      BY <1>0, <2>1
  <1>6. wrong = {}
    <2> SUFFICES ASSUME wrong # {} PROVE FALSE
      OBVIOUS
    <2> HIDE DEF done, Grown
    <2> DEFINE i == Least(wrong)
    <2>1. wrong \in SUBSET Nat
      BY <1>0
    <2>2. i \in wrong /\ \A k \in wrong : i <= k
      BY <2>1, LeastExists
    <2> HIDE DEF i
    <2>3. i \in 0..VNodes /\ done[i] # Grown[i]
      BY <2>2
    <2>4. i # 0
      BY <1>1, <1>5, <2>3
    <2>5. i \in 1..VNodes /\ i - 1 \in 0..VNodes /\ ~(i <= i - 1)
      BY <1>0, <2>3, <2>4
    <2>6. done[i - 1] = Grown[i - 1]
      BY <2>2, <2>5
    <2> QED
      BY <1>2, <1>5, <2>3, <2>5, <2>6
  <1>7. InsertAll(table, id) = done[VNodes]
    BY DEF InsertAll
  <1>8. done[VNodes] = Grown[VNodes]
    <2> HIDE DEF done, Grown
    <2> QED
      BY <1>0, <1>6
  <1>9. Grown[VNodes] = AddNode(table, id, HashSet(id))
    BY <1>0 DEF HashSet
  <1> QED
    BY <1>7, <1>8, <1>9

\* add_node keeps the ring the one HashRing::from would build, and the client's
\* insertions keep its table the same map.
LEMMA RingInvStep ==
    ASSUME RingInv, [Next]_vars
    PROVE  RingInv'
  <1>1. CASE UNCHANGED vars
    BY <1>1 DEF RingInv, vars, HashSet
  <1>2. ASSUME NEW id \in Node, Add(id)
        PROVE  RingInv'
    <2>1. /\ added' = added \cup {id} /\ hashesOf' = hashesOf
          /\ ring' = [h \in Hash |-> IF h \in HashSet(id) THEN ring[h] \cup {id}
                                     ELSE ring[h]]
      BY <1>2 DEF Add, AddNode
    <2>2. \A n \in Node : HashSet(n)' = HashSet(n)
      BY <2>1 DEF HashSet
    <2>3. \A h \in Hash : ring'[h] = {n \in added' : h \in HashSet(n)}
      BY <2>1, RingInvType
    <2>4. ring' = [h \in Hash |-> {n \in added' : h \in HashSet(n)}]
      BY <2>1, <2>3
    <2>5. added' \in SUBSET Node
      BY <2>1 DEF RingInv
    <2>6. RingFrom(added, [n \in Node |-> HashSet(n)])'
             = [h \in Hash |-> {n \in added' : h \in HashSet(n)}]
      BY <2>2, <2>5 DEF RingFrom
    <2>7. routeTable' = ring'
      BY <1>2, RingInvType, InsertAllIsAddNode DEF Add, RingInv
    <2> QED
      BY <2>1, <2>4, <2>5, <2>6, <2>7 DEF RingInv
  <1> QED
    BY <1>1, <1>2 DEF Next

\* However members are added, the ring is determined by their set.
THEOREM RingInvariant == Spec => []RingInv
  <1>1. Init => RingInv
    BY DEF Init, RingInv, EmptyRing, RingFrom
  <1> QED
    BY <1>1, RingInvStep, PTL DEF Spec

\* Whatever members are live, a lookup finds the one that comes first
\* clockwise, across the wrap-around and with colliding virtual nodes.
THEOREM LookupCorrect == Spec => []LookupFindsOwner
  <1>1. RingInv => LookupFindsOwner
    BY RingInvType, LookupUntilFinds, LookupFinds DEF LookupFindsOwner
  <1> QED
    BY <1>1, RingInvariant, PTL

\* Nodes that know the same members agree on every key, in whatever order they
\* learnt of them, and a client's table sends every key where a ring without
\* dead members would.
THEOREM RingIsDetermined == Spec => []RingDependsOnMembersOnly
  <1>1. RingInv => RingDependsOnMembersOnly
    BY RingInvType, RouteLookupFinds DEF RingInv, RingDependsOnMembersOnly
  <1> QED
    BY <1>1, RingInvariant, PTL

\* A joining member takes keys over and moves none between the others.
THEOREM JoinIsMinimal == Spec => JoinTakesOnly
  <1>1. ASSUME RingInv, [Next]_vars, NEW h \in Hash, NEW ids \in SUBSET Node
        PROVE  LookupUntil(ring', h, ids) \in
                  {LookupUntil(ring, h, ids)} \cup (added' \ added)
    <2> DEFINE old == LookupUntil(ring, h, ids)
               new == LookupUntil(ring', h, ids)
    <2>1. ring \in Ring /\ added \in SUBSET Node
      BY <1>1, RingInvType DEF RingInv
    <2>2. CASE UNCHANGED vars
      BY <2>2 DEF vars
    <2>3. ASSUME NEW id \in Node, Add(id)
          PROVE  new \in {old} \cup (added' \ added)
      <3>1. /\ added' = added \cup {id}
            /\ ring' = [k \in Hash |-> IF k \in HashSet(id) THEN ring[k] \cup {id}
                                       ELSE ring[k]]
        BY <2>3 DEF Add, AddNode
      <3>2. ring' \in Ring
        BY <2>1, <3>1 DEF Ring
      <3>3. CASE id \in added
        <4>1. \A k \in Hash : ring'[k] = ring[k]
          BY <1>1, <3>1, <3>3, RingInvType
        <4>2. ring' = ring
          BY <2>1, <3>2, <4>1 DEF Ring
        <4> QED
          BY <4>2
      <3>4. CASE id \notin added /\ ~InRing(ring', ids)
        <4>1. ~InRing(ring, ids)
          BY <2>1, <3>1, <3>4 DEF InRing, Ring
        <4>2. new = None /\ old = None
          BY <2>1, <3>2, <3>4, <4>1, LookupUntilFinds
        <4> QED
          BY <4>2
      <3>5. CASE id \notin added /\ InRing(ring', ids)
        <4>1. IsOwner(ring', h, ids, new)
          BY <3>2, <3>5, LookupUntilFinds
        <4> HIDE DEF new, old
        <4>2. CASE new = id
          BY <3>1, <3>5, <4>2
        <4>3. CASE new # id
          <5>1. PICK k \in Hash :
                   /\ new \in ring'[k] \cap ids
                   /\ \A l \in Hash : ring'[l] \cap ids # {} =>
                                         Distance(h, k) <= Distance(h, l)
                   /\ \A n \in ring'[k] \cap ids : Rank[new] <= Rank[n]
            BY <4>1 DEF IsOwner
          <5>2. \A l \in Hash : ring[l] \subseteq ring'[l]
            BY <3>1
          <5>3. new \in ring[k] \cap ids
            BY <3>1, <4>3, <5>1
          <5>4. IsOwner(ring, h, ids, new) /\ InRing(ring, ids)
            BY <5>1, <5>2, <5>3 DEF IsOwner, InRing
          <5>5. IsOwner(ring, h, ids, old)
            BY <2>1, <5>4, LookupUntilFinds DEF old
          <5>6. new = old
            BY <2>1, <5>4, <5>5, OwnerIsUnique
          <5> QED
            BY <5>6
        <4> QED
          BY <4>2, <4>3
      <3> QED
        BY <3>3, <3>4, <3>5
    <2> QED
      BY <1>1, <2>2, <2>3 DEF Next
  <1>2. RingInv /\ [Next]_vars =>
          [\A h \in Hash, ids \in SUBSET Node :
             LookupUntil(ring', h, ids) \in
                {LookupUntil(ring, h, ids)} \cup (added' \ added)]_vars
    BY <1>1
  <1> QED
    BY <1>2, RingInvariant, PTL DEF Spec, JoinTakesOnly

=============================================================================
