------------------------------ MODULE MCRotation ------------------------------
EXTENDS Rotation, TLC

CONSTANTS n1, n2, n3

MCNode == {n1, n2, n3}
\* Two nodes share level 0, one is alone on level 1.
MCMaps == {[n \in MCNode |-> IF n = m THEN 1 ELSE 0] : m \in MCNode}
MCSymmetry == Permutations(MCNode)
=============================================================================
