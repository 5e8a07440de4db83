----------------------------- MODULE MCHashRing -----------------------------
(***************************************************************************)
(* The instance of RingGrowth that TLC checks: ids are numbers, in their   *)
(* own order.                                                              *)
(***************************************************************************)
EXTENDS RingGrowth

MCRank == [n \in Node |-> n]

=============================================================================
