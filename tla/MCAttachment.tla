---------------------------- MODULE MCAttachment ----------------------------
(* A root, a child leader and a follower, which is every shape of level    *)
(* and role; two cascades, so that a hint of the first can be late for the *)
(* second, and a kill at any point of them.                                *)
EXTENDS Attachment

CONSTANTS n1, n2, n3

MCNode == {n1, n2, n3}
=============================================================================
