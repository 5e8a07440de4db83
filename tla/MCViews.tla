------------------------------ MODULE MCViews -------------------------------
(***************************************************************************)
(* Instances of GossipViews for TLC.                                       *)
(***************************************************************************)
EXTENDS MCGossip, GossipViews
=============================================================================
