------------------------------- MODULE MCJoin -------------------------------
(* A root, a child leader and a follower.  The second HELLO is relayed     *)
(* through the tree the first one's cascade built, while the first one's   *)
(* ack is still about.                                                     *)
EXTENDS Join, TLC

CONSTANTS n1, n2, n3

MCNode == {n1, n2, n3}
MCSymmetry == Permutations(MCNode)
=============================================================================
