----------------------------- MODULE RingLemmas -----------------------------
(***************************************************************************)
(* What the lookups of a ring and of a route table find, for every ring:   *)
(* the facts that the proofs about growing rings and about routed calls    *)
(* share.                                                                  *)
(***************************************************************************)
EXTENDS HashRing, WellFoundedInduction, TLAPS

\* A set of hashes that is not empty has a least one.
LEMMA LeastExists ==
    ASSUME NEW hashes \in SUBSET Nat, hashes # {}
    PROVE  Least(hashes) \in hashes /\ \A k \in hashes : Least(hashes) <= k
  <1>1. PICK h \in hashes : \A k \in hashes : <<k, h>> \notin OpToRel(<, Nat)
    BY NatLessThanWellFounded, WFMin
  <1>2. ASSUME NEW k \in hashes PROVE h <= k
    <2>1. <<k, h>> \in Nat \X Nat /\ ~(k < h)
      BY <1>1 DEF OpToRel
    <2> QED
      BY <2>1
  <1> QED
    BY <1>2 DEF Least

\* A set of ids that is not empty has a first one.
LEMMA FirstExists ==
    ASSUME NEW ids \in SUBSET Node, ids # {}
    PROVE  FirstOf(ids) \in ids /\ \A n \in ids : Rank[FirstOf(ids)] <= Rank[n]
  <1> DEFINE ranks == {Rank[n] : n \in ids}
  <1>1. ranks \in SUBSET Nat /\ ranks # {}
    BY RingAssumption
  <1>2. Least(ranks) \in ranks /\ \A r \in ranks : Least(ranks) <= r
    BY <1>1, LeastExists
  <1>3. PICK m \in ids : Rank[m] = Least(ranks)
    BY <1>2
  <1>4. \A n \in ids : Rank[m] <= Rank[n]
    BY <1>2, <1>3
  <1> QED
    BY <1>4 DEF FirstOf

\* What find_map finds: the first acceptable id at the least hash that holds
\* one.
Finds(r, hashes, ids, id) ==
    \/ id = None /\ \A l \in hashes : r[l] \cap ids = {}
    \/ \E k \in hashes :
          /\ id \in r[k] \cap ids
          /\ \A l \in hashes : r[l] \cap ids # {} => k <= l
          /\ \A n \in r[k] \cap ids : Rank[id] <= Rank[n]

\* Scan is find_map over the entries of a range, in ascending order.
LEMMA ScanFinds ==
    ASSUME NEW r \in Ring, NEW hashes \in SUBSET Hash, NEW ids \in SUBSET Node
    PROVE  Finds(r, hashes, ids, Scan(r, hashes, ids))
  <1> DEFINE hits == {h \in hashes : r[h] \cap ids # {}}
             k    == Least(hits)
  <1>1. CASE hits = {}
    BY <1>1 DEF Scan, Finds
  <1>2. CASE hits # {}
    <2>1. hits \in SUBSET Nat
      BY RingAssumption DEF Hash
    <2>2. k \in hits /\ \A l \in hits : k <= l
      BY <1>2, <2>1, LeastExists
    <2>3. r[k] \cap ids \in SUBSET Node /\ r[k] \cap ids # {}
      BY <2>2
    <2>4. Scan(r, hashes, ids) = FirstOf(r[k] \cap ids)
      BY <1>2 DEF Scan
    <2> HIDE DEF k
    <2>5. /\ FirstOf(r[k] \cap ids) \in r[k] \cap ids
          /\ \A n \in r[k] \cap ids : Rank[FirstOf(r[k] \cap ids)] <= Rank[n]
      BY <2>3, FirstExists
    <2>6. k \in hashes /\ \A l \in hashes : r[l] \cap ids # {} => k <= l
      BY <2>2
    <2> QED
      BY <2>4, <2>5, <2>6 DEF Finds
  <1> QED
    BY <1>1, <1>2

\* lookup_until finds the first acceptable node clockwise from the key.
LEMMA LookupUntilFinds ==
    ASSUME NEW r \in Ring, NEW h \in Hash, NEW ids \in SUBSET Node
    PROVE  IF InRing(r, ids)
           THEN IsOwner(r, h, ids, LookupUntil(r, h, ids))
           ELSE LookupUntil(r, h, ids) = None
  <1> DEFINE up   == Scan(r, RangeFrom(h), ids)
             down == Scan(r, RangeTo(h), ids)
  <1>0. /\ RangeFrom(h) \in SUBSET Hash /\ RangeTo(h) \in SUBSET Hash
        /\ \A k \in Hash : k \in RangeFrom(h) \/ k \in RangeTo(h)
        /\ Hash \subseteq Nat /\ \A k \in Hash : k <= MaxHash
        /\ MaxHash \in Nat /\ None \notin Node
    BY RingAssumption DEF RangeFrom, RangeTo, Hash
  <1>1. LookupUntil(r, h, ids) = IF up # None THEN up ELSE down
    BY DEF LookupUntil
  <1>r. RangeFrom(h) \in SUBSET Hash /\ RangeTo(h) \in SUBSET Hash
    BY <1>0
  <1>a. Finds(r, RangeFrom(h), ids, up) /\ Finds(r, RangeTo(h), ids, down)
    BY <1>r, ScanFinds
  <1> HIDE DEF up, down
  <1>2. CASE \E k \in RangeFrom(h) : r[k] \cap ids # {}
    <2>1. PICK k \in RangeFrom(h) :
             /\ up \in r[k] \cap ids
             /\ \A l \in RangeFrom(h) : r[l] \cap ids # {} => k <= l
             /\ \A n \in r[k] \cap ids : Rank[up] <= Rank[n]
      BY <1>2, <1>a DEF Finds
    <2>2. LookupUntil(r, h, ids) = up
      BY <1>0, <1>1, <2>1
    <2>3. ASSUME NEW l \in Hash, r[l] \cap ids # {}
          PROVE  Distance(h, k) <= Distance(h, l)
      <3>1. k \in Nat /\ l \in Nat /\ h \in Nat /\ k >= h /\ k <= MaxHash
        BY <1>0 DEF RangeFrom
      <3>2. l >= h => k <= l
        BY <2>1, <2>3 DEF RangeFrom
      <3> QED
        BY <1>0, <3>1, <3>2 DEF Distance
    <2>4. IsOwner(r, h, ids, up) /\ InRing(r, ids)
      BY <1>0, <2>1, <2>3 DEF IsOwner, InRing
    <2> QED
      BY <2>2, <2>4
  <1>3. CASE /\ ~\E k \in RangeFrom(h) : r[k] \cap ids # {}
             /\ \E k \in RangeTo(h) : r[k] \cap ids # {}
    <2>1. up = None
      BY <1>3, <1>a DEF Finds
    <2>2. PICK k \in RangeTo(h) :
             /\ down \in r[k] \cap ids
             /\ \A l \in RangeTo(h) : r[l] \cap ids # {} => k <= l
             /\ \A n \in r[k] \cap ids : Rank[down] <= Rank[n]
      BY <1>3, <1>a DEF Finds
    <2>3. LookupUntil(r, h, ids) = down
      BY <1>1, <2>1
    <2>4. ASSUME NEW l \in Hash, r[l] \cap ids # {}
          PROVE  Distance(h, k) <= Distance(h, l)
      <3>1. k \in Nat /\ l \in Nat /\ h \in Nat
        BY <1>0
      <3>2. ~(l >= h) /\ ~(k >= h)
        BY <1>0, <1>3, <2>2, <2>4 DEF RangeFrom
      <3>3. k <= l
        BY <1>0, <2>2, <2>4, <3>1, <3>2 DEF RangeTo
      <3> QED
        BY <1>0, <3>1, <3>2, <3>3 DEF Distance
    <2>5. IsOwner(r, h, ids, down) /\ InRing(r, ids)
      BY <1>0, <2>2, <2>4 DEF IsOwner, InRing
    <2> QED
      BY <2>3, <2>5
  <1>4. CASE ~\E k \in Hash : r[k] \cap ids # {}
    <2>1. up = None /\ down = None
      BY <1>0, <1>4, <1>a DEF Finds
    <2> QED
      BY <1>1, <1>4, <2>1 DEF InRing
  <1> QED
    BY <1>0, <1>2, <1>3, <1>4

\* lookup is lookup_until with every id acceptable.
LEMMA LookupFinds ==
    ASSUME NEW r \in Ring, NEW h \in Hash
    PROVE  Lookup(r, h) = LookupUntil(r, h, Node)
  <1> DEFINE up == Scan(r, RangeFrom(h), Node)
  <1>0. /\ RangeFrom(h) \in SUBSET Hash /\ RangeTo(h) \in SUBSET Hash
        /\ Hash \in SUBSET Nat /\ None \notin Node /\ Node \in SUBSET Node
    BY RingAssumption DEF RangeFrom, RangeTo, Hash
  <1>1. CASE up # None
    BY <1>1 DEF Lookup, LookupUntil
  <1>2. CASE up = None
    <2>1. \A l \in RangeFrom(h) : r[l] \cap Node = {}
      BY <1>0, <1>2, ScanFinds DEF Finds
    <2>2. {l \in Hash : r[l] \cap Node # {}} = {l \in RangeTo(h) : r[l] \cap Node # {}}
      <3>1. ASSUME NEW l \in Hash, r[l] \cap Node # {}
            PROVE  l \in RangeTo(h)
        <4>1. ~(l >= h)
          BY <2>1, <3>1 DEF RangeFrom
        <4>2. l \in Nat /\ h \in Nat
          BY <1>0
        <4> QED
          BY <4>1, <4>2 DEF RangeTo
      <3> QED
        BY <1>0, <3>1
    <2>3. Scan(r, Hash, Node) = Scan(r, RangeTo(h), Node)
      BY <2>2 DEF Scan
    <2> QED
      BY <1>2, <2>3 DEF Lookup, LookupUntil
  <1> QED
    BY <1>1, <1>2

\* A key has one owner.
LEMMA OwnerIsUnique ==
    ASSUME NEW r \in Ring, NEW h \in Hash, NEW ids \in SUBSET Node,
           NEW a, NEW b, IsOwner(r, h, ids, a), IsOwner(r, h, ids, b)
    PROVE  a = b
  <1>1. PICK k \in Hash :
           /\ a \in r[k] \cap ids
           /\ \A l \in Hash : r[l] \cap ids # {} => Distance(h, k) <= Distance(h, l)
           /\ \A n \in r[k] \cap ids : Rank[a] <= Rank[n]
    BY DEF IsOwner
  <1>2. PICK j \in Hash :
           /\ b \in r[j] \cap ids
           /\ \A l \in Hash : r[l] \cap ids # {} => Distance(h, j) <= Distance(h, l)
           /\ \A n \in r[j] \cap ids : Rank[b] <= Rank[n]
    BY DEF IsOwner
  <1>3. Distance(h, k) <= Distance(h, j) /\ Distance(h, j) <= Distance(h, k)
    BY <1>1, <1>2
  <1>4. k = j
    BY <1>3, RingAssumption DEF Distance, Hash
  <1>5. Rank[a] <= Rank[b] /\ Rank[b] <= Rank[a] /\ a \in Node /\ b \in Node
    BY <1>1, <1>2, <1>4
  <1> QED
    BY <1>5, RingAssumption

\* The client's lookup is the ring's.
LEMMA RouteLookupFinds ==
    ASSUME NEW r \in Ring, NEW h \in Hash
    PROVE  RouteLookup(r, h) = Lookup(r, h)
  <1>1. \A k \in Hash : r[k] \cap Node = r[k]
    BY DEF Ring
  <1>2. /\ RangeFrom(h) \in SUBSET Hash /\ Hash \in SUBSET Nat
        /\ None \notin Node /\ Node \in SUBSET Node /\ Hash \in SUBSET Hash
    BY RingAssumption DEF RangeFrom, Hash
  <1> DEFINE hits(hashes) == {k \in hashes : r[k] # {}}
  <1>3. ASSUME NEW hashes \in SUBSET Hash
        PROVE  /\ Scan(r, hashes, Node) =
                     IF hits(hashes) = {} THEN None ELSE FirstOf(r[Least(hits(hashes))])
               /\ hits(hashes) # {} => Scan(r, hashes, Node) # None
    <2>1. hits(hashes) = {k \in hashes : r[k] \cap Node # {}}
      BY <1>1
    <2>2. hits(hashes) # {} => Least(hits(hashes)) \in hits(hashes)
      BY <1>2, LeastExists
    <2>3. hits(hashes) # {} =>
             r[Least(hits(hashes))] \cap Node = r[Least(hits(hashes))]
      BY <1>1, <2>2
    <2>4. Scan(r, hashes, Node) =
             IF hits(hashes) = {} THEN None ELSE FirstOf(r[Least(hits(hashes))])
      BY <2>1, <2>3 DEF Scan
    <2>5. Finds(r, hashes, Node, Scan(r, hashes, Node))
      BY <1>2, ScanFinds
    <2>6. hits(hashes) # {} => Scan(r, hashes, Node) # None
      BY <1>1, <1>2, <2>5 DEF Finds
    <2> QED
      BY <2>4, <2>6
  <1>4. RouteLookup(r, h) =
           IF hits(RangeFrom(h)) # {} THEN FirstOf(r[Least(hits(RangeFrom(h)))])
           ELSE IF hits(Hash) # {} THEN FirstOf(r[Least(hits(Hash))])
           ELSE None
    BY DEF RouteLookup
  <1> HIDE DEF hits
  <1>5. Scan(r, RangeFrom(h), Node) =
           IF hits(RangeFrom(h)) = {} THEN None
           ELSE FirstOf(r[Least(hits(RangeFrom(h)))])
    BY <1>2, <1>3
  <1>6. hits(RangeFrom(h)) # {} => Scan(r, RangeFrom(h), Node) # None
    BY <1>2, <1>3
  <1>7. Scan(r, Hash, Node) =
           IF hits(Hash) = {} THEN None ELSE FirstOf(r[Least(hits(Hash))])
    BY <1>2, <1>3
  <1> QED
    BY <1>4, <1>5, <1>6, <1>7 DEF Lookup

\* HashRing::from builds a ring, in which every id with a virtual node can be
\* found.
LEMMA RingFromHas ==
    ASSUME NEW ids \in SUBSET Node, NEW hs \in [Node -> SUBSET Hash]
    PROVE  /\ RingFrom(ids, hs) \in Ring
           /\ \A n \in ids, some \in SUBSET Node :
                 n \in some /\ hs[n] # {} => InRing(RingFrom(ids, hs), some)
  <1>1. RingFrom(ids, hs) \in Ring
    BY DEF RingFrom, Ring
  <1>2. ASSUME NEW n \in ids, NEW some \in SUBSET Node, n \in some, hs[n] # {}
        PROVE  InRing(RingFrom(ids, hs), some)
    <2>1. PICK h \in Hash : h \in hs[n]
      BY <1>2
    <2>2. n \in RingFrom(ids, hs)[h] \cap some
      BY <1>2, <2>1 DEF RingFrom
    <2> QED
      BY <2>2 DEF InRing
  <1> QED
    BY <1>1, <1>2

\* The first of all ids, if it is acceptable, is the first acceptable one.
LEMMA OwnerAmongFewer ==
    ASSUME NEW r \in Ring, NEW h \in Hash, NEW all \in SUBSET Node,
           NEW some \in SUBSET all, NEW id \in some, IsOwner(r, h, all, id)
    PROVE  IsOwner(r, h, some, id)
  BY DEF IsOwner

=============================================================================
