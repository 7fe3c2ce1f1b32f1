------------------------------ MODULE MCDiscovery ------------------------------
(* One node is spawned and probes the other, which is the root of the      *)
(* tree.  Nodes share nothing but the list of a tick.  The back-off goes   *)
(* 1, 2, 2, and the bucket holds two tokens and gets half a one per unit.  *)
EXTENDS Discovery

CONSTANTS seeker, root

MCNode == {seeker, root}
MCSettled == {root}
=============================================================================
