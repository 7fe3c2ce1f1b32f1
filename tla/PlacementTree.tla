---------------------------- MODULE PlacementTree ----------------------------
(***************************************************************************)
(* The shape of the tree that one placement cascade builds                 *)
(* (applyPlacementCascade, sim/internal/dashboard/manager.go), in closed   *)
(* form.  The nodes are ranked 1, 2, 3, ... by quality; rank 1 is the      *)
(* root.  Leaders are served in queue order, and every leader takes first  *)
(* up to Y child leaders, then up to N followers, from the front of what   *)
(* is left of the ranking.  So group g (the members the g-th queued leader *)
(* takes, counting from 0) holds the ranks 2 + g*(Y+N) .. 1 + (g+1)*(Y+N). *)
(***************************************************************************)
EXTENDS Integers

CONSTANTS
  Y,    \* child leaders a leader takes at most (cfg.Y)
  N     \* followers a leader takes at most (cfg.N)

\* validateStartConfig refuses a start with N <= 0 or Y <= 0.
ASSUME CapacityAssumption == Y \in Nat \ {0} /\ N \in Nat \ {0}

(* The group rank i > 1 belongs to, and its place in the group.            *)
GroupOf(i) == (i - 2) \div (Y + N)
SlotOf(i)  == (i - 2) % (Y + N)

(* A leader, or a follower, by rank.                                       *)
LeadsAtRank(i) == i = 1 \/ SlotOf(i) < Y

(* The rank of the k-th leader of the queue (the root is the 0-th).        *)
QueueRank(k) ==
  IF k = 0 THEN 1 ELSE 2 + ((k - 1) \div Y) * (Y + N) + ((k - 1) % Y)

(* The leader that takes rank i > 1.                                       *)
ParentRank(i) == QueueRank(GroupOf(i))

(* The level of the k-th queued leader, for the first m + 1 of them: one   *)
(* more than the leader that took it.                                      *)
QueueLevel(m) ==
  LET depth[k \in 0 .. m] == IF k = 0 THEN 0 ELSE depth[(k - 1) \div Y] + 1
  IN  depth

(* The level of rank i: a child leader's is one more than its parent's, a  *)
(* follower's is its parent's.                                             *)
LevelAtRank(i) ==
  IF i = 1 THEN 0
  ELSE QueueLevel(GroupOf(i))[GroupOf(i)] + (IF LeadsAtRank(i) THEN 1 ELSE 0)
=============================================================================
