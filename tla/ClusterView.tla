---------------------------- MODULE ClusterView -----------------------------
(***************************************************************************)
(* What a cluster promises of its nodes' views of each other, whatever     *)
(* messages carry them: nobody but a node itself makes its identities, it  *)
(* never goes back to one it had, and a view moves from one identity to a  *)
(* later one, never back and never to one that nobody announced.           *)
(*                                                                         *)
(* There are no messages, no retries, no disks and no clocks here; Gossip  *)
(* implements this specification (GossipViews).                            *)
(***************************************************************************)
EXTENDS Naturals

CONSTANTS Node, None

VARIABLES
    issued,  \* the identities announced so far
    view     \* view[n][m]: what n holds of m, None when it does not know m

Nobody == [m \in Node |-> None]

Init ==
    /\ issued = {}
    /\ view = [n \in Node |-> Nobody]

\* What n announces is its own, and ahead of all it announced before.
Announces(n) ==
    /\ issued \subseteq issued'
    /\ \A i \in issued' \ issued :
          /\ i.node_id = n
          /\ \A j \in issued' \ {i} : j.node_id = n => j.incarnation < i.incarnation

\* An entry moves to an identity that was announced, and only forward.
Learns(m, old, new) ==
    /\ new # None
    /\ new.info \in issued /\ new.info.node_id = m
    /\ old # None => old.info.incarnation < new.info.incarnation

\* The judgement on an identity changes; its heartbeat does not go back.
Judges(old, new) ==
    /\ old # None /\ new # None
    /\ new.info = old.info
    /\ new.heartbeat >= old.heartbeat

Forgets(old, new) == old # None /\ old.status = "dead" /\ new = None

Observes(n) ==
    \A m \in Node :
        LET old == view[n][m]
            new == view'[n][m]
        IN  new = old \/ Learns(m, old, new) \/ Judges(old, new) \/ Forgets(old, new)

\* The process of n ends and its view with it.
Leaves(n) == view'[n] = Nobody

\* Every step is one node's.
Next ==
    \E n \in Node :
        /\ view' = [view EXCEPT ![n] = view'[n]]
        /\ Announces(n)
        /\ Observes(n) \/ Leaves(n)

Spec == Init /\ [][Next]_<<issued, view>>

=============================================================================
