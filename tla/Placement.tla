------------------------------ MODULE Placement ------------------------------
(***************************************************************************)
(* What a placement cascade promises (applyPlacementCascade): at once,     *)
(* every node it found gets its place, which depends on nothing but how    *)
(* many of them are better -- its rank, and from that by the closed form   *)
(* of PlacementTree its leader, its role and its level.  How the loops     *)
(* come to that is module Cascade's business, which implements this one.   *)
(***************************************************************************)
EXTENDS PlacementTree, FiniteSets

CONSTANTS
  Node,      \* node ids, compared to break ties; 0 is none
  NodeSets,  \* the sets of nodes a cascade may find in the simulation
  Quality    \* values of a node's Q, scaled to naturals

VARIABLES
  q,    \* the nodes' qualities
  tree  \* the published tree

vars == <<q, tree>>

(* Quality decides, and on a tie the lower id.                             *)
Outranks(m, n) == q[m] > q[n] \/ (q[m] = q[n] /\ m < n)

Ranking(S) ==
  [n \in Node |-> IF n \in S THEN Cardinality({m \in S : Outranks(m, n)}) + 1 ELSE 0]

(* The tree of a ranking; who has no rank is not in it.                    *)
ParentOf(r, n) == IF r[n] > 1 THEN CHOOSE p \in Node : r[p] = ParentRank(r[n]) ELSE 0
Leads(r, n)    == r[n] # 0 /\ LeadsAtRank(r[n])
Under(r, p)    == {n \in Node : r[n] > 1 /\ ParentOf(r, n) = p}

TreeOf(r) ==
  [rank   |-> r,
   parent |-> [n \in Node |-> ParentOf(r, n)],
   leads  |-> [n \in Node |-> Leads(r, n)],
   level  |-> [n \in Node |-> IF r[n] = 0 THEN 0 ELSE LevelAtRank(r[n])],
   child  |-> [p \in Node |-> {n \in Under(r, p) : Leads(r, n)}],
   foll   |-> [p \in Node |-> {n \in Under(r, p) : ~Leads(r, n)}]]

Init ==
  /\ q \in [Node -> Quality]
  /\ tree = TreeOf([n \in Node |-> 0])

Place(S) == tree' = TreeOf(Ranking(S)) /\ UNCHANGED q

Next == \E S \in NodeSets \ {{}} : Place(S)

Spec == Init /\ [][Next]_vars
=============================================================================
