------------------------------ MODULE MCGossip ------------------------------
(***************************************************************************)
(* Instances of Gossip for TLC.                                            *)
(***************************************************************************)
EXTENDS Gossip, TLC

CONSTANTS n1, n2, a1, a2

\* Every node has the address of one seed in its initial_peers, the seed too
\* (dev/cluster/config-*.toml).
MCAddrOf == (n1 :> {a1}) @@ (n2 :> {a2})
MCSeedPeers == [n \in Node |-> <<a1>>]
MCOneSeed == (n1 :> <<>>) @@ (n2 :> <<a1>>)
MCAllPeers == [n \in Node |-> <<a1, a2>>]
MCMoving == (n1 :> {a1}) @@ (n2 :> Addr)
MCSkew == (n1 :> 0) @@ (n2 :> 1)
MCNoSkew == [n \in Node |-> 0]
=============================================================================
