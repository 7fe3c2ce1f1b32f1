------------------------------ MODULE MCCascade ------------------------------
(* Seven nodes fill the root's group and, with Y = 2 and N = 1, its first  *)
(* child's; six and five leave that group incomplete, one is a root alone. *)
EXTENDS Cascade

MCNode == 1 .. 7
MCNodeSets == {{}, {3}, 2 .. 6, 1 .. 6, 1 .. 7}
MCQuality == 0 .. 1
=============================================================================
