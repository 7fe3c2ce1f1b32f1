----------------------------- MODULE MCHierarchy -----------------------------
(* With Y = N = 1 five nodes make three levels, so that a cache has an     *)
(* upper level, and two of them have company.  Two cascades and Start      *)
(* overlap, with all equal qualities, with one node ahead, and with one    *)
(* behind.                                                                 *)
EXTENDS Hierarchy, TLC

CONSTANTS c1, c2

MCNode == 1 .. 5
MCCascader == {c1, c2}
MCQuality == 1 .. 2
MCInitialQ ==
  {[n \in MCNode |-> 1], [n \in MCNode |-> IF n = 3 THEN 2 ELSE 1],
   [n \in MCNode |-> IF n = 1 THEN 1 ELSE 2]}
MCSymmetry == Permutations(MCCascader)
=============================================================================
