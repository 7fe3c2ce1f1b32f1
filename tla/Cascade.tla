------------------------------- MODULE Cascade -------------------------------
(***************************************************************************)
(* The loop of applyPlacementCascade (sim/internal/dashboard/manager.go):  *)
(* from the nodes of the simulation, sorted by quality, to the four maps   *)
(* topologyByNode, parentByNode, childLeadersByNode and followersByLeader. *)
(*                                                                         *)
(* Cascades are serialised by placementMu and every cascade starts from    *)
(* empty maps.  What happens between two cascades is abstracted to another *)
(* node set; module Mutation puts the cascade beside the joins, the kills  *)
(* and the quality drift that run meanwhile.                               *)
(***************************************************************************)
EXTENDS PlacementTree, FiniteSets, Sequences

CONSTANTS
  Node,             \* node ids, compared to break ties
  NodeSets,         \* the sets of nodes a cascade may find in the simulation
  Quality,          \* values of a node's Q, scaled to naturals
  SenderThreshold   \* a follower of at least this quality is a sender

\* mesh hands out ids from 1; Go's zero id means "no node".
ASSUME NodeAssumption ==
  /\ Node \subseteq Nat \ {0}
  /\ \A S \in NodeSets : S \subseteq Node /\ IsFiniteSet(S)
ASSUME QualityAssumption == Quality \subseteq Nat /\ SenderThreshold \in Nat

VARIABLES
  q,          \* Node.Metrics.Q
  pc,         \* "idle" outside a cascade, else the loop it is in
  filtered,   \* the nodes the cascade places, sorted by quality
  idx,        \* the rank the cascade places next
  queue,      \* the leaders in the order they are served
  qi,         \* the leader being served
  slot,       \* its next child leader or follower slot
  tree,       \* the maps under construction
  pub         \* the maps the manager published last, under m.mu

vars == <<q, pc, filtered, idx, queue, qi, slot, tree, pub>>

(* A topology id: the slots on the path from the root to a leader, and for *)
(* a follower of that leader its slot (0 for the leader itself).  "0" in   *)
(* the code is the empty path; the leading "1" of every other id is left   *)
(* out.                                                                    *)
LeaderTopo(path) == [path |-> path, b |-> 0]
PlainFollowerTopo(path, s) == [path |-> path, b |-> 0]   \* a mutated FollowerTopo
FollowerTopo(path, s) == [path |-> path, b |-> s]
RootTopo == LeaderTopo(<<>>)
NoTopo == [path |-> <<>>, b |-> -1]

(* Maps nobody is in.  parent is 0 where the code's map has no entry;      *)
(* rank, role and level record what the cascade gave the node.             *)
EmptyTree ==
  [topo   |-> [n \in Node |-> NoTopo],
   parent |-> [n \in Node |-> 0],
   child  |-> [n \in Node |-> {}],
   foll   |-> [n \in Node |-> {}],
   rank   |-> [n \in Node |-> 0],
   role   |-> [n \in Node |-> "none"],
   level  |-> [n \in Node |-> 0]]

Placed(t) == {n \in Node : t.rank[n] # 0}

(* A mutated Better: on a tie the node that came last.                     *)
BetterIfNewer(quality, a, b) ==
  quality[a] > quality[b] \/ (quality[a] = quality[b] /\ a > b)

(* betterPeer: higher quality first, the lower id on a tie.                *)
Better(quality, a, b) ==
  quality[a] > quality[b] \/ (quality[a] = quality[b] /\ a < b)

(* sortNodesByQuality: the i-th is the node i - 1 others are better than.  *)
Sorted(S, quality) ==
  [i \in 1 .. Cardinality(S) |->
     CHOOSE n \in S : Cardinality({m \in S : Better(quality, m, n)}) = i - 1]

-----------------------------------------------------------------------------
(* Mutated forms of the definitions below, as a slip in the loop could     *)
(* have them.  They show that each property can fail.                      *)

(* The slot counters start from zero.                                      *)
EndChildrenFromZero ==
  /\ pc = "children" /\ ~ (slot <= Y /\ idx <= Len(filtered))
  /\ pc' = "followers" /\ slot' = 0
  /\ UNCHANGED <<q, filtered, idx, queue, qi, tree, pub>>

(* The followers' loop ends one turn late.                                 *)
PlaceFollowerTooMany ==
  LET cur == queue[qi] IN
  /\ pc = "followers" /\ slot <= N + 1 /\ idx <= Len(filtered)
  /\ tree' = [tree EXCEPT !.foll[cur.leader] = @ \cup {filtered[idx]}]
  /\ idx' = idx + 1 /\ slot' = slot + 1
  /\ UNCHANGED <<q, pc, filtered, queue, qi, pub>>

(* The leader's children go on the level of the leader itself.             *)
PlaceChildSameDepth ==
  LET cur   == queue[qi]
      child == filtered[idx]
      path  == Append(cur.path, slot)
  IN
  /\ pc = "children" /\ slot <= Y /\ idx <= Len(filtered)
  /\ tree' = [tree EXCEPT !.topo[child] = LeaderTopo(path), !.parent[child] = cur.leader,
                          !.rank[child] = idx, !.role[child] = "leader",
                          !.level[child] = cur.depth,
                          !.child[cur.leader] = @ \cup {child}]
  /\ queue' = Append(queue, [leader |-> child, path |-> path, depth |-> cur.depth + 1])
  /\ idx' = idx + 1 /\ slot' = slot + 1
  /\ UNCHANGED <<q, pc, filtered, qi, pub>>

(* A child leader is placed and never queued.                              *)
PlaceChildUnqueued ==
  LET cur   == queue[qi]
      child == filtered[idx]
  IN
  /\ pc = "children" /\ slot <= Y /\ idx <= Len(filtered)
  /\ tree' = [tree EXCEPT !.rank[child] = idx, !.role[child] = "leader",
                          !.level[child] = cur.depth + 1, !.parent[child] = cur.leader,
                          !.child[cur.leader] = @ \cup {child}]
  /\ idx' = idx + 1 /\ slot' = slot + 1
  /\ UNCHANGED <<q, pc, filtered, queue, qi, pub>>

(* The outer loop tests the queue only, and does not advance in it.        *)
EndFollowersSameLeader ==
  /\ pc = "followers" /\ ~ (slot <= N /\ idx <= Len(filtered))
  /\ slot' = 1
  /\ pc' = IF qi <= Len(queue) THEN "children" ELSE "publish"
  /\ UNCHANGED <<q, filtered, idx, queue, qi, tree, pub>>
-----------------------------------------------------------------------------
Init ==
  /\ q \in [Node -> Quality]
  /\ pc = "idle"
  /\ filtered = <<>> /\ idx = 1 /\ queue = <<>> /\ qi = 1 /\ slot = 1
  /\ tree = EmptyTree /\ pub = EmptyTree

(* The nodes the simulation holds are sorted; with none the code returns   *)
(* before it does anything.                                                *)
Begin ==
  /\ pc = "idle"
  /\ \E S \in NodeSets \ {{}} : filtered' = Sorted(S, q)
  /\ pc' = "root"
  /\ UNCHANGED <<q, idx, queue, qi, slot, tree, pub>>

(* assignLeader and assignFollower for the node of rank idx: its entries   *)
(* in topologyByNode and parentByNode, its role and its level.             *)
Assign(n, role, level, topo, p) ==
  [tree EXCEPT !.topo[n] = topo, !.parent[n] = p, !.rank[n] = idx,
               !.role[n] = role, !.level[n] = level]

FollowerRole(n) == IF q[n] >= SenderThreshold THEN "sender" ELSE "base"

PlaceRoot ==
  LET root == filtered[1] IN
  /\ pc = "root"
  /\ tree' = Assign(root, "leader", 0, RootTopo, 0)
  /\ queue' = <<[leader |-> root, path |-> <<>>, depth |-> 0]>>
  /\ idx' = 2 /\ qi' = 1 /\ slot' = 1
  /\ pc' = IF Len(filtered) > 1 THEN "children" ELSE "publish"
  /\ UNCHANGED <<q, filtered, pub>>

(* A turn of the loop that gives the leader a child leader ...             *)
PlaceChild ==
  LET cur   == queue[qi]
      child == filtered[idx]
      path  == Append(cur.path, slot)
  IN
  /\ pc = "children" /\ slot <= Y /\ idx <= Len(filtered)
  /\ tree' = [Assign(child, "leader", cur.depth + 1, LeaderTopo(path), cur.leader)
                EXCEPT !.child[cur.leader] = @ \cup {child}]
  /\ queue' = Append(queue, [leader |-> child, path |-> path, depth |-> cur.depth + 1])
  /\ idx' = idx + 1 /\ slot' = slot + 1
  /\ UNCHANGED <<q, pc, filtered, qi, pub>>

(* ... its exit ...                                                        *)
EndChildren ==
  /\ pc = "children" /\ ~ (slot <= Y /\ idx <= Len(filtered))
  /\ pc' = "followers" /\ slot' = 1
  /\ UNCHANGED <<q, filtered, idx, queue, qi, tree, pub>>

(* ... a turn of the loop that gives it a follower ...                     *)
PlaceFollower ==
  LET cur      == queue[qi]
      follower == filtered[idx]
  IN
  /\ pc = "followers" /\ slot <= N /\ idx <= Len(filtered)
  /\ tree' = [Assign(follower, FollowerRole(follower), cur.depth,
                     FollowerTopo(cur.path, slot), cur.leader)
                EXCEPT !.foll[cur.leader] = @ \cup {follower}]
  /\ idx' = idx + 1 /\ slot' = slot + 1
  /\ UNCHANGED <<q, pc, filtered, queue, qi, pub>>

(* ... and its exit, with the test of the outer loop.                      *)
EndFollowers ==
  /\ pc = "followers" /\ ~ (slot <= N /\ idx <= Len(filtered))
  /\ qi' = qi + 1 /\ slot' = 1
  /\ pc' = IF qi' <= Len(queue) /\ idx <= Len(filtered) THEN "children" ELSE "publish"
  /\ UNCHANGED <<q, filtered, idx, queue, tree, pub>>

(* The maps replace the published ones.  The code has a loop before this   *)
(* that hangs what is left of filtered on the root; NoLeftovers says that  *)
(* nothing ever is, so the loop is not an action here.                     *)
Publish ==
  /\ pc = "publish"
  /\ pub' = tree
  /\ pc' = "idle"
  /\ filtered' = <<>> /\ idx' = 1 /\ queue' = <<>> /\ qi' = 1 /\ slot' = 1
  /\ tree' = EmptyTree
  /\ UNCHANGED q

Next ==
  \/ Begin \/ PlaceRoot \/ PlaceChild \/ EndChildren
  \/ PlaceFollower \/ EndFollowers \/ Publish

(* The cascade is sequential code that blocks on nothing but m.mu.         *)
Spec == Init /\ [][Next]_vars /\ WF_vars(Next /\ pc # "idle")
-----------------------------------------------------------------------------
Roles == {"none", "leader", "sender", "base"}
Topos == [path : Seq(Nat), b : Nat \cup {-1}]

QueueItem == [leader : Node, path : Seq(Nat), depth : Nat]

Trees ==
  [topo : [Node -> Topos], parent : [Node -> Node \cup {0}],
   child : [Node -> SUBSET Node], foll : [Node -> SUBSET Node],
   rank : [Node -> Nat], role : [Node -> Roles], level : [Node -> Nat]]

(* What the variables range over.                                          *)
TypeOK ==
  /\ q \in [Node -> Quality]
  /\ pc \in {"idle", "root", "children", "followers", "publish"}
  /\ filtered \in Seq(Node)
  /\ queue \in Seq(QueueItem)
  /\ idx \in Nat \ {0} /\ qi \in Nat \ {0} /\ slot \in Nat \ {0}
  /\ tree \in Trees /\ pub \in Trees

(* Node n hangs on p: p leads and was ranked before n, and n is either a   *)
(* child leader of p, one level further out, or a follower of p, on its    *)
(* level; exactly the one list of p's that fits holds it.                  *)
HangsOn(t, n, p) ==
  /\ t.rank[p] # 0 /\ t.rank[p] < t.rank[n]
  /\ t.role[p] = "leader"
  /\ \/ /\ t.role[n] = "leader" /\ t.level[n] = t.level[p] + 1
        /\ n \in t.child[p] /\ n \notin t.foll[p]
     \/ /\ t.role[n] \in {"sender", "base"} /\ t.level[n] = t.level[p]
        /\ n \in t.foll[p] /\ n \notin t.child[p]

IsTree(t) ==
  /\ \A n \in Node :
       t.rank[n] > 1 => t.parent[n] \in Node /\ HangsOn(t, n, t.parent[n])
  /\ \A n \in Node :
       t.rank[n] = 1 => t.parent[n] = 0 /\ t.role[n] = "leader" /\ t.level[n] = 0
  /\ \A p, n \in Node :
       n \in t.child[p] \cup t.foll[p] => t.rank[n] > 1 /\ t.parent[n] = p

(* The maps form one tree, at every turn of the loop and once published:   *)
(* every placed node but the root hangs on a better-ranked leader, and the *)
(* parent map is the inverse of the two child maps.  Following parents     *)
(* therefore climbs to the root, and buildTopologyPathToRoot meets no loop.*)
AlwaysATree == IsTree(tree) /\ IsTree(pub)

(* No leader gets more than Y child leaders and N followers.               *)
CapacityRespected ==
  \A t \in {tree, pub} : \A p \in Node :
    Cardinality(t.child[p]) <= Y /\ Cardinality(t.foll[p]) <= N

(* Topology ids identify nodes.                                            *)
DistinctTopologyIDs ==
  \A t \in {tree, pub} : \A m, n \in Placed(t) : t.topo[m] = t.topo[n] => m = n

(* The comment of the fallback loop, "should not happen with Y>=1": when   *)
(* the queue is served every node has its place.                           *)
NoLeftovers == pc = "publish" => idx > Len(filtered)

(* The loops compute, rank by rank, the closed form of PlacementTree.      *)
MatchesClosedForm ==
  \A n \in Placed(pub) :
    /\ pub.level[n] = LevelAtRank(pub.rank[n])
    /\ (pub.role[n] = "leader") = LeadsAtRank(pub.rank[n])
    /\ pub.rank[n] > 1 => pub.rank[pub.parent[n]] = ParentRank(pub.rank[n])

(* Every cascade that starts publishes a tree of all the nodes it took.    *)
CascadePublishes == pc = "root" ~> pc = "idle"

(* What is left of a cascade, in turns of its loops at most: three for a   *)
(* node that has no place yet, two for a leader that waits in the queue.   *)
TurnsLeft ==
  CASE pc = "idle"    -> 0
    [] pc = "publish" -> 1
    [] OTHER          -> 3 * (Len(filtered) + 1 - idx) + 2 * (Len(queue) - qi)
                           + (IF pc = "followers" THEN 2 ELSE 3)

(* No turn leaves as much to do as it found: a cascade over n nodes is     *)
(* through after 3 * n + 1 of them, whatever the capacities.               *)
TurnsAdvance == [][pc # "idle" => TurnsLeft' \in 0 .. TurnsLeft - 1]_vars

(* What was published, as Placement has it.                                *)
AtOnce == INSTANCE Placement WITH
  tree <- [rank |-> pub.rank, parent |-> pub.parent, level |-> pub.level,
           leads |-> [n \in Node |-> pub.role[n] = "leader"],
           child |-> pub.child, foll |-> pub.foll]

(* A cascade implements Placement: in whatever order the mesh's map gave   *)
(* it the nodes and its loops placed them, each node that it found is      *)
(* where its rank among them by quality puts it, on a tie the lower id     *)
(* first, and no other node is in any map.                                 *)
PlacesAtOnce == AtOnce!Spec
=============================================================================
