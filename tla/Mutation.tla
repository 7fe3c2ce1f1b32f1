------------------------------ MODULE Mutation ------------------------------
(***************************************************************************)
(* KillNodes and SpawnNodes (dashboard/node_mutation.go) on their HTTP     *)
(* goroutines, beside the cascades that joins run on the nodes' goroutines *)
(* (finalizeJoinPlacement).  RestartNodes and RestartRandomNodes are a     *)
(* KillNodes and then a SpawnNodes call of the same goroutine.             *)
(*                                                                         *)
(* applyPlacementCascade holds placementMu from start to end, but m.mu     *)
(* only to read the simulation and to publish its maps: nodes come and go  *)
(* between the snapshot it places and the tree it publishes.  (It then     *)
(* rebuilds the hierarchy and syncs the nodes' managers, neither of which  *)
(* touches these maps, so a cascade ends here when it publishes.)  A kill  *)
(* removes its nodes one by one under neither mutex, prunes the published  *)
(* maps under m.mu and then runs a cascade of its own.                     *)
(*                                                                         *)
(* Module Cascade has the loop that builds the tree and shows it to be the *)
(* closed form of PlacementTree, which is used here.  Qualities drift all  *)
(* the time, so a cascade may find its nodes in any order.                 *)
(***************************************************************************)
EXTENDS PlacementTree, FiniteSets, Functions

CONSTANTS
  Node,           \* node ids; the mesh never hands one out twice
  Caller,         \* HTTP goroutines that kill, spawn or restart nodes
  Joiner,         \* a node's goroutine running the cascade of a join
  NoNode,         \* Go's zero node id
  Nobody,         \* nobody holds placementMu
  InitialNodes,   \* the nodes the run has, and has placed, at first
  MaxSpawn,       \* bound on the nodes one spawn adds, for TLC
  ExcludeRoot     \* values of exclude_root in kill requests

ASSUME NodeAssumption ==
  NoNode \notin Node /\ InitialNodes \subseteq Node /\ IsFiniteSet(Node)
ASSUME CallerAssumption == Joiner \notin Caller /\ Nobody \notin Caller \cup {Joiner}
ASSUME RequestAssumption ==
  MaxSpawn \in Nat \ {0} /\ ExcludeRoot \subseteq BOOLEAN

VARIABLES
  alive,    \* mesh.nodes
  used,     \* the ids handed out so far
  pub,      \* the maps published under m.mu
  cas,      \* who holds placementMu, and the cascade it runs
  call      \* per caller: how far its request is

vars == <<alive, used, pub, cas, call>>

Unranked == [n \in Node |-> 0]

(* The orders sortNodesByQuality may leave the nodes of S in, 1 the best.  *)
Rankings(S) ==
  {[n \in Node |-> IF n \in S THEN r[n] ELSE 0] :
     r \in Bijection(S, 1 .. Cardinality(S))}

(* The maps of the cascade that ranks the nodes so: rank is 0 for a node   *)
(* topologyByNode has no entry for, under is the union of the node's two   *)
(* lists childLeadersByNode and followersByLeader.                         *)
ParentIn(rank, n) ==
  LET parents == {p \in Node : rank[n] > 1 /\ rank[p] = ParentRank(rank[n])}
  IN  IF parents = {} THEN NoNode ELSE CHOOSE p \in parents : TRUE
TreeOf(rank) ==
  [rank   |-> rank,
   parent |-> [n \in Node |-> ParentIn(rank, n)],
   under  |-> [p \in Node |-> {n \in Node : ParentIn(rank, n) = p}]]

Placed(t) == {n \in Node : t.rank[n] # 0}

(* The node whose topology id is "0", as KillNodes finds it.               *)
PublishedRoot == {n \in Node : pub.rank[n] = 1}

Idle == [at |-> "idle", todo |-> {}, removed |-> {}, left |-> 0, excludeRoot |-> FALSE]
Free == [by |-> Nobody, rank |-> Unranked]

(* Start spawns the nodes and places none: the model begins where the run  *)
(* is quiet after its first join.                                          *)
Init ==
  /\ alive = InitialNodes /\ used = InitialNodes
  /\ \E r \in Rankings(InitialNodes) : pub = TreeOf(r)
  /\ cas = Free
  /\ call = [c \in Caller |-> Idle]
-----------------------------------------------------------------------------
(* The cascade, for a request or for a join.                               *)

(* Take placementMu and the nodes the mesh holds.                          *)
Take(c) ==
  /\ cas.by = Nobody /\ alive # {}
  /\ \E r \in Rankings(alive) : cas' = [by |-> c, rank |-> r]
  /\ UNCHANGED <<alive, used, pub>>

(* Publish the tree of those nodes, whatever became of them meanwhile; a   *)
(* request returns with its cascade.                                       *)
Publish ==
  /\ cas.by # Nobody
  /\ pub' = TreeOf(cas.rank)
  /\ cas' = Free
  /\ call' = [c \in Caller |-> IF c = cas.by THEN Idle ELSE call[c]]
  /\ UNCHANGED <<alive, used>>

JoinCascade == Take(Joiner) /\ UNCHANGED call

(* With no node in the mesh a cascade returns before it does anything.     *)
EmptyJoinCascade == cas.by = Nobody /\ alive = {} /\ UNCHANGED vars

CallCascade(c) ==
  /\ call[c].at = "cascade" /\ Take(c)
  /\ call' = [call EXCEPT ![c].at = "placing"]

EmptyCallCascade(c) ==
  /\ call[c].at = "cascade" /\ cas.by = Nobody /\ alive = {}
  /\ call' = [call EXCEPT ![c] = Idle]
  /\ UNCHANGED <<alive, used, pub, cas>>
-----------------------------------------------------------------------------
(* KillNodes.                                                              *)

Candidates(excludeRoot) == alive \ (IF excludeRoot THEN PublishedRoot ELSE {})

(* By id, count or percent; target_role and min_leaders_keep only narrow   *)
(* the choice.                                                             *)
Select(c, excludeRoot) ==
  /\ call[c].at = "idle"
  /\ \E S \in SUBSET Candidates(excludeRoot) \ {{}} :
       call' = [call EXCEPT ![c] =
                  [Idle EXCEPT !.at = "remove", !.todo = S, !.excludeRoot = excludeRoot]]
  /\ UNCHANGED <<alive, used, pub, cas>>

(* The next selected node is deregistered and removed.  It counts only if  *)
(* no other kill removed it before.                                        *)
Remove(c) ==
  /\ call[c].at = "remove"
  /\ \E n \in call[c].todo :
       /\ alive' = alive \ {n}
       /\ call' = [call EXCEPT ![c].todo = @ \ {n}, ![c].removed = @ \cup ({n} \cap alive)]
  /\ UNCHANGED <<used, pub, cas>>

(* A mutated form of Pruned: the lists of other nodes are not filtered.    *)
PrunedEntriesOnly(t, R) ==
  [rank   |-> [n \in Node |-> IF n \in R THEN 0 ELSE t.rank[n]],
   parent |-> [n \in Node |-> IF n \in R THEN NoNode ELSE t.parent[n]],
   under  |-> [n \in Node |-> IF n \in R THEN {} ELSE t.under[n]]]

(* pruneTopologyState: the entries of the removed nodes go, and they leave *)
(* the lists of others.  The parent entries of their children stay.        *)
Pruned(t, R) ==
  [rank   |-> [n \in Node |-> IF n \in R THEN 0 ELSE t.rank[n]],
   parent |-> [n \in Node |-> IF n \in R THEN NoNode ELSE t.parent[n]],
   under  |-> [n \in Node |-> IF n \in R THEN {} ELSE t.under[n] \ R]]

(* A mutated form of Prune: a kill leaves it at that and runs no cascade.  *)
PruneOnly(c) ==
  /\ call[c].at = "remove" /\ call[c].todo = {}
  /\ pub' = Pruned(pub, call[c].removed)
  /\ call' = [call EXCEPT ![c] = Idle]
  /\ UNCHANGED <<alive, used, cas>>

Prune(c) ==
  /\ call[c].at = "remove" /\ call[c].todo = {}
  /\ IF call[c].removed = {}
     THEN call' = [call EXCEPT ![c] = Idle] /\ UNCHANGED pub
     ELSE /\ call' = [call EXCEPT ![c].at = "cascade"]
          /\ pub' = Pruned(pub, call[c].removed)
  /\ UNCHANGED <<alive, used, cas>>
-----------------------------------------------------------------------------
(* SpawnNodes.                                                             *)

SpawnBegin(c) ==
  /\ call[c].at = "idle"
  /\ \E k \in 1 .. MaxSpawn : call' = [call EXCEPT ![c] = [Idle EXCEPT !.at = "spawn", !.left = k]]
  /\ UNCHANGED <<alive, used, pub, cas>>

(* Mutated forms: an id that is not spent, and a spawn that leaves the     *)
(* cascade to the joins of its nodes.                                      *)
SpawnOneUnspent(c) ==
  /\ call[c].at = "spawn" /\ call[c].left > 0
  /\ \E n \in Node \ used : alive' = alive \cup {n}
  /\ call' = [call EXCEPT ![c].left = @ - 1]
  /\ UNCHANGED <<used, pub, cas>>

SpawnEndUnplaced(c) ==
  /\ call[c].at = "spawn" /\ call[c].left = 0
  /\ call' = [call EXCEPT ![c] = Idle]
  /\ UNCHANGED <<alive, used, pub, cas>>

(* A fresh node joins the mesh with role base; no map has it yet.          *)
SpawnOne(c) ==
  /\ call[c].at = "spawn" /\ call[c].left > 0
  /\ \E n \in Node \ used : alive' = alive \cup {n} /\ used' = used \cup {n}
  /\ call' = [call EXCEPT ![c].left = @ - 1]
  /\ UNCHANGED <<pub, cas>>

SpawnEnd(c) ==
  /\ call[c].at = "spawn" /\ call[c].left = 0
  /\ call' = [call EXCEPT ![c].at = "cascade"]
  /\ UNCHANGED <<alive, used, pub, cas>>
-----------------------------------------------------------------------------
Next ==
  \/ Publish \/ JoinCascade \/ EmptyJoinCascade
  \/ \E c \in Caller :
       \/ CallCascade(c) \/ EmptyCallCascade(c)
       \/ \E x \in ExcludeRoot : Select(c, x)
       \/ Remove(c) \/ Prune(c)
       \/ SpawnBegin(c) \/ SpawnOne(c) \/ SpawnEnd(c)

Spec == Init /\ [][Next]_vars
-----------------------------------------------------------------------------
Maps ==
  [rank : [Node -> Nat], parent : [Node -> Node \cup {NoNode}],
   under : [Node -> SUBSET Node]]
Calls ==
  [at : {"idle", "remove", "cascade", "placing", "spawn"}, todo : SUBSET Node,
   removed : SUBSET Node, left : Nat, excludeRoot : BOOLEAN]

(* What the variables range over; every node in use has an id of its own.  *)
TypeOK ==
  /\ alive \subseteq used /\ used \subseteq Node
  /\ pub \in Maps
  /\ cas \in [by : Caller \cup {Joiner, Nobody}, rank : [Node -> Nat]]
  /\ call \in [Caller -> Calls]

(* A node that KillNodes removed is in the published maps at most until    *)
(* the call that removed it returns, however the kills, the joins' and the *)
(* spawns' cascades interleave -- with one exception: when nothing is      *)
(* alive the last kill's cascade returns before it publishes, and the maps *)
(* an earlier one left then name removed nodes and nothing else.           *)
DeadNodesLeaveTheMaps ==
  \/ Placed(pub) \cap alive = {}
  \/ \A n \in Placed(pub) \ alive : \E c \in Caller : n \in call[c].removed

(* Parent map and lists are inverse to each other: what a list holds is    *)
(* placed, and its parent entry names the list's owner; a placed node with *)
(* a placed parent is on that parent's lists.  Parents outrank their       *)
(* children, so no climb to the root meets a loop.                         *)
Forest(t) ==
  \A p, n \in Node :
    /\ n \in t.under[p] => n \in Placed(t) /\ p \in Placed(t) /\ t.parent[n] = p
    /\ n \in Placed(t) /\ p \in Placed(t) /\ t.parent[n] = p
         => n \in t.under[p] /\ t.rank[p] < t.rank[n]

(* The published maps stay a forest through every prune, of a tree that    *)
(* may hold the nodes of other kills, and every late publication.          *)
PublishedForest == Forest(pub)

(* When no request is in progress and no cascade runs, the maps place just *)
(* the live nodes, all hanging together under one root: no spawned node    *)
(* was left out and no orphan of a kill is left behind.                    *)
Quiet == cas.by = Nobody /\ \A c \in Caller : call[c].at = "idle"
QuietMapsMatchTheMesh ==
  Quiet /\ alive # {} =>
    /\ Placed(pub) = alive
    /\ Cardinality(PublishedRoot) = 1
    /\ \A n \in alive \ PublishedRoot : pub.parent[n] \in alive

(* HOW_TO_USE.md: a kill "removes a random non-root leader".  A request    *)
(* that excludes the root never removes the node that is the root.         *)
RootIsExcluded ==
  [][\A c \in Caller : Remove(c) /\ call[c].excludeRoot
                         => (alive \ alive') \cap PublishedRoot = {}]_vars
=============================================================================
