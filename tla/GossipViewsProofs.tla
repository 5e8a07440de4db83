------------------------- MODULE GossipViewsProofs --------------------------
(***************************************************************************)
(* Gossip implements ClusterView, for every set of nodes, every            *)
(* configuration and every value of the bounds.                            *)
(***************************************************************************)
EXTENDS GossipViews, GossipProofs

(***************************************************************************)
(* The invariant the refinement needs beside the one of Gossip: everything *)
(* known anywhere was announced, and nothing that was ever announced is    *)
(* ahead of its node.json or its process, even if nobody remembers it.     *)
(***************************************************************************)
IssuedInv ==
    /\ issued \subseteq NodeInfo
    /\ Infos \subseteq issued
    /\ \A i \in issued : Behind(i)

ViewsInv == TypeOK /\ ProcessInv /\ IssuedInv

\* What one step announces.
LEMMA IssuedGrows ==
    ASSUME ViewsInv, [Next]_vars,
           issued' = issued \cup ({current'[n] : n \in Node} \ {None})
    PROVE  /\ issued \subseteq issued'
           /\ \A i \in issued' \ issued :
                 \E k \in Node : (StartsAfresh(k) \/ Advances(k)) /\ i = current'[k]
  <1>1. ASSUME NEW i \in issued' \ issued
        PROVE  \E k \in Node : (StartsAfresh(k) \/ Advances(k)) /\ i = current'[k]
    <2>1. PICK k \in Node : i = current'[k] /\ i # None
      BY <1>1
    <2>2. ~Keeps(k)
      <3>1. current[k] # None => current[k] \in issued
        BY InfosHave DEF ViewsInv, IssuedInv
      <3> QED
        BY <1>1, <2>1, <3>1 DEF Keeps
    <2> QED
      BY <2>1, <2>2, IdentityStepHolds DEF IdentityStep, ViewsInv
  <1> QED
    BY <1>1

\* Every step keeps what has been announced behind its owner.
LEMMA IssuedStep ==
    ASSUME ViewsInv, [Next]_vars,
           issued' = issued \cup ({current'[n] : n \in Node} \ {None})
    PROVE  ViewsInv'
  <1>1. TypeOK' /\ ProcessInv'
    BY TypeStep DEF ViewsInv
  <1>2. issued' \subseteq NodeInfo
    BY <1>1 DEF ViewsInv, IssuedInv, TypeOK
  <1>3. ASSUME NEW i \in Infos'
        PROVE  i \in issued'
    <2>1. i \in Infos \/ \E k \in Node : current'[k] # None /\ i = current'[k]
      BY InfosGrowStep DEF InfosGrow, ViewsInv
    <2> QED
      BY <2>1 DEF ViewsInv, IssuedInv
  <1>4. ASSUME NEW i \in issued'
        PROVE  Behind(i)'
    <2>1. CASE i \in issued
      <3>1. i \in NodeInfo /\ Behind(i)
        BY <2>1 DEF ViewsInv, IssuedInv
      <3> QED
        BY <3>1, BehindStep DEF ViewsInv
    <2>2. CASE i \notin issued
      <3>1. PICK k \in Node : (StartsAfresh(k) \/ Advances(k)) /\ i = current'[k]
        BY <1>4, <2>2, IssuedGrows
      <3>2. Behind(current[k])'
        BY <3>1, NewIsBehind DEF ViewsInv
      <3> QED
        BY <3>1, <3>2 DEF Behind
    <2> QED
      BY <2>1, <2>2
  <1> QED
    BY <1>1, <1>2, <1>3, <1>4 DEF ViewsInv, IssuedInv

\* The invariant of the refinement.
THEOREM ViewsInvariant == ViewSpec => []ViewsInv
  <1>1. ViewInit => ViewsInv
    <2>1. Init => TypeOK /\ ProcessInv
      BY InitTypes
    <2> QED
      BY <2>1, NobodyKnown DEF ViewInit, ViewsInv, IssuedInv
  <1>2. ViewsInv /\ [ViewNext]_<<vars, issued>> => ViewsInv'
    <2> SUFFICES ASSUME ViewsInv, [ViewNext]_<<vars, issued>>
                 PROVE  ViewsInv'
      OBVIOUS
    <2>1. CASE ViewNext
      BY <2>1, IssuedStep DEF ViewNext
    <2>2. CASE UNCHANGED <<vars, issued>>
      <3>1. \A n \in Node : current'[n] # None => current'[n] \in issued
        BY <2>2, InfosHave DEF vars, ViewsInv, IssuedInv
      <3>2. issued' = issued \cup ({current'[n] : n \in Node} \ {None})
        BY <2>2, <3>1
      <3> QED
        BY <2>2, <3>2, IssuedStep
    <2> QED
      BY <2>1, <2>2
  <1> QED
    BY <1>1, <1>2, PTL DEF ViewSpec

-----------------------------------------------------------------------------
(***************************************************************************)
(* Steps map to steps.                                                     *)
(***************************************************************************)

\* The rest of the cluster looks the same to n.
OnlyMoves(n) ==
    \A k \in Node \ {n} :
        /\ phase'[k] = phase[k]
        /\ membership'[k] = membership[k]
        /\ current'[k] = current[k]

\* A step is one node's, or shows nowhere.
LEMMA OneNodeMoves ==
    ASSUME TypeOK, ProcessInv, [Next]_vars
    PROVE  UNCHANGED <<phase, membership, current>> \/ \E n \in Node : OnlyMoves(n)
  <1>0. ASSUME NEW m \in Node, phase[m] # "down", NEW msg \in GossipMessage,
               HandleMessage(m, msg) \/ HandleMessagePanics(m, msg),
               \A k \in Node \ {m} : phase'[k] = phase[k]
        PROVE  OnlyMoves(m)
    <2>1. membership' = [membership EXCEPT ![m] = Handled(m, msg)]
      BY <1>0, HandleMessageStep
    <2>2. \A k \in Node \ {m} : current'[k] = current[k]
      BY <1>0, HandleMessageStep
    <2> QED
      BY <1>0, <2>1, <2>2 DEF OnlyMoves, TypeOK
  <1>1. CASE UNCHANGED vars \/ Tick
    BY <1>1 DEF vars, Tick
  <1>2. ASSUME NEW n \in Node, Process(n)
        PROVE  OnlyMoves(n)
    BY <1>2 DEF Process, Boot, BootTorn, Crash, Start, BootSend, BootGiveUp, BootDone,
                RebuildRing, RemoveDeadMembers, OnlyMoves, TypeOK
  <1>3. ASSUME NEW n \in Node, NEW t \in Task, NEW m \in Node,
               \/ Deliver(n, t, m) \/ DeliverDuringStart(n, t, m)
               \/ DeliverPanics(n, t, m)
        PROVE  OnlyMoves(m)
    <2>1. /\ Awaiting(n, t) /\ Serves(m, call[n][t].url)
          /\ HandleMessage(m, call[n][t].msg) \/ HandleMessagePanics(m, call[n][t].msg)
      BY <1>3 DEF Deliver, DeliverDuringStart, DeliverPanics
    <2>2. phase[m] # "down" /\ call[n][t].msg \in GossipMessage
      BY <2>1, CallFields DEF Awaiting, Serves
    <2>3. \A k \in Node \ {m} : phase'[k] = phase[k]
      BY <1>3 DEF Deliver, DeliverDuringStart, DeliverPanics, TypeOK
    <2> QED
      BY <1>0, <2>1, <2>2, <2>3
  <1>4. ASSUME NEW n \in Node, NEW t \in Task,
               HandleReply(n, t) \/ HandleReplyPanics(n, t)
        PROVE  OnlyMoves(n)
    <2>1. /\ Answered(n, t) /\ UNCHANGED phase
          /\ \/ HandleMessage(n, call[n][t].reply)
             \/ HandleMessagePanics(n, call[n][t].reply)
      BY <1>4 DEF HandleReply, HandleReplyPanics
    <2>2. phase[n] # "down" /\ call[n][t].reply \in GossipMessage
      BY <2>1, CallFields, CallerIsUp DEF Answered
    <2> QED
      BY <1>0, <2>1, <2>2
  <1>5. ASSUME NEW n \in Node, NEW t \in Task,
               Hang(n, t) \/ Retry(n, t) \/ RetryLate(n, t)
        PROVE  UNCHANGED <<phase, membership, current>>
    BY <1>5 DEF Hang, Retry, RetryLate
  <1>6. ASSUME NEW n \in Node, NEW t \in Task, GiveUp(n, t)
        PROVE  OnlyMoves(n)
    BY <1>6 DEF GiveUp, OnlyMoves, TypeOK
  <1>7. ASSUME NEW n \in Node, NEW t \in Loop, LoopStep(n, t)
        PROVE  UNCHANGED <<phase, membership, current>>
    BY <1>7 DEF LoopStep, LoopTick, LoopTickPanics
  <1>8. ASSUME NEW r \in late, NEW m \in Node,
               DeliverLate(r, m) \/ DeliverLateDuringStart(r, m)
        PROVE  OnlyMoves(m)
    <2>1. /\ phase[m] # "down" /\ r.msg \in GossipMessage
          /\ \A k \in Node \ {m} : phase'[k] = phase[k]
          /\ HandleMessage(m, r.msg) \/ HandleMessagePanics(m, r.msg)
      BY <1>8 DEF DeliverLate, DeliverLateDuringStart, Serves, TypeOK, Request
    <2> QED
      BY <1>0, <2>1
  <1> QED
    BY <1>1, <1>2, <1>3, <1>4, <1>5, <1>6, <1>7, <1>8 DEF Next, Exchange

\* What a step announces is the new identity of the one node that moves, and
\* it is ahead of everything that node ever announced.
LEMMA AnnouncesStep ==
    ASSUME ViewsInv, [Next]_vars, NEW n \in Node, OnlyMoves(n),
           issued' = issued \cup ({current'[k] : k \in Node} \ {None})
    PROVE  Cluster!Announces(n)
  <1>1. issued \subseteq issued'
    BY IssuedGrows
  <1>2. ASSUME NEW i \in issued' \ issued
        PROVE  /\ i.node_id = n
               /\ \A j \in issued' \ {i} : j.node_id = n => j.incarnation < i.incarnation
    <2>1. PICK k \in Node : (StartsAfresh(k) \/ Advances(k)) /\ i = current'[k]
      BY <1>2, IssuedGrows
    <2>2. k = n
      <3>1. current[k] # None => current[k] \in issued
        BY InfosHave DEF ViewsInv, IssuedInv
      <3>2. i # None
        <4>1. ViewsInv'
          BY IssuedStep
        <4> QED
          BY <1>2, <4>1, NoneAssumption DEF ViewsInv, IssuedInv
      <3> QED
        BY <1>2, <2>1, <3>1, <3>2 DEF OnlyMoves
    <2>3. /\ disk'[n] \in Nat /\ i.node_id = n /\ i.incarnation = disk'[n]
          /\ \A j \in NodeInfo : Behind(j) /\ j.node_id = n => j.incarnation < disk'[n]
      BY <2>1, <2>2, NewIdentityIsAhead DEF ViewsInv
    <2>4. ASSUME NEW j \in issued' \ {i}, j.node_id = n
          PROVE  j.incarnation < i.incarnation
      <3>1. CASE j \in issued
        BY <2>3, <2>4, <3>1 DEF ViewsInv, IssuedInv
      <3>2. CASE j \notin issued
        <4>1. PICK l \in Node : (StartsAfresh(l) \/ Advances(l)) /\ j = current'[l]
          BY <2>4, <3>2, IssuedGrows
        <4>2. current'[l].node_id = l
          BY <4>1, NewIdentityIsAhead DEF ViewsInv
        <4> QED
          BY <2>1, <2>2, <2>4, <4>1, <4>2
      <3> QED
        BY <3>1, <3>2
    <2> QED
      BY <2>3, <2>4
  <1> QED
    BY <1>1, <1>2 DEF Cluster!Announces

\* What a node's view becomes: it is left, or every entry moves to something
\* announced, ahead of what it held, is judged anew, or is forgotten dead.
LEMMA ViewStep ==
    ASSUME ViewsInv, [Next]_vars, NEW n \in Node
    PROVE  \/ ViewOf(n)' = EmptyTable
           \/ \A m \in Node :
                 \/ ViewOf(n)'[m] = ViewOf(n)[m]
                 \/ Cluster!Learns(m, ViewOf(n)[m], ViewOf(n)'[m])
                 \/ Cluster!Judges(ViewOf(n)[m], ViewOf(n)'[m])
                 \/ Cluster!Forgets(ViewOf(n)[m], ViewOf(n)'[m])
  <1> DEFINE old == membership[n]
             new == membership'[n]
  <1>0. TypeOK /\ ProcessInv /\ TypeOK'
    BY TypeStep DEF ViewsInv
  <1>1. CASE phase'[n] \notin {"bootstrap", "running"}
    BY <1>1 DEF ViewOf
  <1>2. CASE phase'[n] \in {"bootstrap", "running"}
    <2>1. ViewOf(n)' = new /\ new \in Table
      BY <1>0, <1>2 DEF ViewOf, TypeOK
    <2>2. ASSUME NEW m \in Node, new[m] # None
          PROVE  new[m].info \in issued /\ new[m].info.node_id = m
      <3>1. new[m].info \in TableInfos(new)
        BY <2>2 DEF TableInfos, Members
      <3>2. TableInfos(new) \subseteq issued
        BY <1>0, InfosSpreadStep DEF TablesOK, ViewsInv, IssuedInv
      <3> QED
        BY <2>1, <2>2, <3>1, <3>2 DEF Table
    <2>3. CASE phase[n] \notin {"bootstrap", "running"}
      <3>1. \A m \in Node : ViewOf(n)[m] = None
        BY <2>3 DEF ViewOf, EmptyTable
      <3>2. ASSUME NEW m \in Node, new[m] # None
            PROVE  Cluster!Learns(m, ViewOf(n)[m], new[m])
        BY <2>2, <3>1, <3>2 DEF Cluster!Learns
      <3> QED
        BY <2>1, <3>1, <3>2
    <2>4. CASE phase[n] \in {"bootstrap", "running"}
      <3>1. ViewOf(n) = old /\ old \in Table
        BY <1>0, <2>4 DEF ViewOf, TypeOK
      <3>2. CASE TableMovesOn(old, new)
        <4>1. ASSUME NEW m \in Node
              PROVE  \/ new[m] = old[m]
                     \/ Cluster!Learns(m, old[m], new[m])
                     \/ Cluster!Judges(old[m], new[m])
          <5>1. CASE old[m] = None
            BY <2>2, <5>1 DEF Cluster!Learns
          <5>2. CASE old[m] # None
            <6>1. new[m] # None /\ EntryMovesOn(old[m], new[m])
              BY <3>2, <5>2 DEF TableMovesOn
            <6>2. old[m].info.incarnation \in Nat /\ new[m].info.incarnation \in Nat
              BY <2>1, <3>1, <5>2, <6>1 DEF Table, MemberState, NodeInfo
            <6> QED
              BY <2>2, <5>2, <6>1, <6>2 DEF EntryMovesOn, Cluster!Learns, Cluster!Judges
          <5> QED
            BY <5>1, <5>2
        <4> QED
          BY <2>1, <3>1, <4>1
      <3>3. CASE new = RemoveMembers(old, Expired(n))
        <4>1. ASSUME NEW m \in Node
              PROVE  new[m] = old[m] \/ Cluster!Forgets(old[m], new[m])
          BY <3>3 DEF RemoveMembers, Expired, IsDead, Cluster!Forgets
        <4> QED
          BY <2>1, <3>1, <4>1
      <3> QED
        BY <1>0, <1>2, <2>4, <3>2, <3>3, TableStep
    <2> QED
      BY <2>3, <2>4
  <1> QED
    BY <1>1, <1>2

\* A step of the protocol is a step of ClusterView, or shows nowhere.
LEMMA RefinementStep ==
    ASSUME ViewsInv, [ViewNext]_<<vars, issued>>
    PROVE  [Cluster!Next]_<<issued, [n \in Node |-> ViewOf(n)]>>
  <1> DEFINE view == [n \in Node |-> ViewOf(n)]
  <1>1. CASE UNCHANGED <<vars, issued>>
    <2>1. \A n \in Node : ViewOf(n)' = ViewOf(n)
      BY <1>1 DEF vars, ViewOf
    <2> QED
      BY <1>1, <2>1
  <1>2. CASE ViewNext
    <2>1. [Next]_vars /\ issued' = issued \cup ({current'[k] : k \in Node} \ {None})
      BY <1>2 DEF ViewNext
    <2>2. CASE UNCHANGED <<phase, membership, current>>
      <3>1. \A n \in Node : ViewOf(n)' = ViewOf(n)
        BY <2>2 DEF ViewOf
      <3>2. issued' = issued
        <4>1. \A k \in Node : current'[k] # None => current'[k] \in issued
          BY <2>2, InfosHave DEF ViewsInv, IssuedInv
        <4> QED
          BY <2>1, <4>1
      <3> QED
        BY <3>1, <3>2
    <2>3. ASSUME NEW n \in Node, OnlyMoves(n)
          PROVE  Cluster!Next
      <3>1. Cluster!Announces(n)
        BY <2>1, <2>3, AnnouncesStep
      <3>2. \A k \in Node \ {n} : ViewOf(k)' = ViewOf(k)
        BY <2>3 DEF OnlyMoves, ViewOf
      <3>3. view' = [view EXCEPT ![n] = view'[n]]
        BY <3>2
      <3>4. Cluster!Observes(n) \/ Cluster!Leaves(n)
        <4>1. view[n] = ViewOf(n) /\ view'[n] = ViewOf(n)'
          OBVIOUS
        <4> QED
          BY <2>1, <4>1, ViewStep
             DEF Cluster!Observes, Cluster!Leaves, Cluster!Nobody, EmptyTable
      <3> QED
        BY <3>1, <3>3, <3>4 DEF Cluster!Next
    <2> QED
      BY <2>1, <2>2, <2>3, OneNodeMoves DEF ViewsInv
  <1> QED
    BY <1>1, <1>2

\* The gossip protocol keeps the promises of ClusterView: every step is one
\* node's, who announces at most one identity, its own and ahead of all it
\* announced before (advance_incarnation, start_gossip), and whose table moves
\* to announced identities only and never back (handle_message, mark_dead,
\* remove_dead_members).
THEOREM Refinement == ViewSpec => ImplementsClusterView
  <1>1. ViewInit => Cluster!Init
    <2>1. ASSUME ViewInit
          PROVE  issued = {} /\ \A n \in Node : ViewOf(n) = EmptyTable
      BY <2>1 DEF ViewInit, Init, ViewOf
    <2> QED
      BY <2>1 DEF Cluster!Init, Cluster!Nobody, EmptyTable
  <1>2. ViewsInv /\ [ViewNext]_<<vars, issued>> =>
           [Cluster!Next]_<<issued, [n \in Node |-> ViewOf(n)]>>
    BY RefinementStep
  <1> QED
    BY <1>1, <1>2, ViewsInvariant, PTL
       DEF ViewSpec, ImplementsClusterView, Cluster!Spec

=============================================================================
