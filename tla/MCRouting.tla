------------------------------ MODULE MCRouting ------------------------------
(***************************************************************************)
(* Instances of Routing for TLC.                                           *)
(***************************************************************************)
EXTENDS Routing, TLC

MCRank == [n \in Node |-> n]

\* Virtual nodes that interleave and, at hash 3, collide.
MCHashesOf == [n \in Node |-> CASE n = 1 -> {0, 3} [] n = 2 -> {1, 3} [] OTHER -> {2}]

\* The key of the first of Key is met by node 3 first, then (past the
\* collision) by 1 and 2.
MCKeyHash == [k \in Key |-> 2]

\* Nothing tells one task from another, or one value from another.
MCSymmetry == Permutations(Task) \cup Permutations(Value)

=============================================================================
