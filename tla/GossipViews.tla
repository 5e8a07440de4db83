---------------------------- MODULE GossipViews -----------------------------
(***************************************************************************)
(* Gossip implements ClusterView.  The set of identities announced so far  *)
(* is a history variable.  The view of a node is its table once start()    *)
(* has stored it: what the control server learns before that is thrown     *)
(* away by the store.                                                      *)
(***************************************************************************)
EXTENDS Gossip

VARIABLE issued

ViewInit == Init /\ issued = {}

ViewNext ==
    /\ Next
    /\ issued' = issued \cup ({current'[n] : n \in Node} \ {None})

ViewSpec == ViewInit /\ [][ViewNext]_<<vars, issued>>

ViewOf(n) ==
    IF phase[n] \in {"bootstrap", "running"} THEN membership[n] ELSE EmptyTable

Cluster == INSTANCE ClusterView WITH view <- [n \in Node |-> ViewOf(n)]

\* The protocol keeps the promises of ClusterView: in whatever order messages
\* are handled, lost, retried or answered, and whoever crashes and comes back,
\* a step is one node announcing an identity ahead of all it had, and moving
\* its own table to announced identities only, never back
\* (handle_message, mark_dead, remove_dead_members, advance_incarnation).
ImplementsClusterView == Cluster!Spec

=============================================================================
