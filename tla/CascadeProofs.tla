---------------------------- MODULE CascadeProofs ----------------------------
(***************************************************************************)
(* What TLAPS proves about Cascade, for every number of nodes, every       *)
(* quality and every capacity: types, the shape of the tree at every turn  *)
(* of the loop, the capacities, and that no node is left over (from IInv); *)
(* that topology ids differ and that the loops compute the closed form of  *)
(* PlacementTree (from Form, an invariant beside it); that the cascade     *)
(* implements Placement (from Standing, beside both); and that no turn     *)
(* leaves as much to do as it found.                                       *)
(***************************************************************************)
EXTENDS Cascade, FiniteSetTheorems, SequenceTheorems, WellFoundedInduction, TLAPS

(* sortNodesByQuality, as betterPeer is a strict total order on a set of   *)
(* nodes, leaves a sequence that holds every node of the set once.         *)
LEMMA SortedIsInjective ==
  ASSUME NEW S \in NodeSets, NEW quality \in [Node -> Quality]
  PROVE  /\ Cardinality(S) \in Nat
         /\ Sorted(S, quality) \in [1 .. Cardinality(S) -> S]
         /\ \A i, j \in 1 .. Cardinality(S) :
              Sorted(S, quality)[i] = Sorted(S, quality)[j] => i = j
         /\ \A i \in 1 .. Cardinality(S) :
              Cardinality({m \in S : Better(quality, m, Sorted(S, quality)[i])}) = i - 1
         /\ \A n \in S : \E i \in 1 .. Cardinality(S) : Sorted(S, quality)[i] = n
<1> DEFINE above(n) == {m \in S : Better(quality, m, n)}
           f == [n \in S |-> Cardinality(above(n))]
           T == 0 .. Cardinality(S) - 1
<1>1. S \subseteq Node /\ IsFiniteSet(S) /\ \A n \in S : n \in Nat /\ quality[n] \in Nat
  BY NodeAssumption, QualityAssumption
<1>2. Cardinality(S) \in Nat
  BY <1>1, FS_CardinalityType
<1>3. ASSUME NEW n \in S
      PROVE  IsFiniteSet(above(n)) /\ Cardinality(above(n)) \in T
  <2>1. n \notin above(n)
    BY <1>1 DEF Better
  <2>2. above(n) \in SUBSET (S \ {n})
    BY <2>1
  <2>3. IsFiniteSet(S \ {n}) /\ Cardinality(S \ {n}) = Cardinality(S) - 1
    BY <1>1, FS_RemoveElement
  <2>4. IsFiniteSet(above(n)) /\ Cardinality(above(n)) <= Cardinality(S) - 1
    BY <2>2, <2>3, FS_Subset
  <2>5. Cardinality(above(n)) \in Nat
    BY <2>4, FS_CardinalityType
  <2> QED BY <2>4, <2>5, <1>2
<1>4. ASSUME NEW m \in S, NEW n \in S, Better(quality, m, n)
      PROVE  Cardinality(above(m)) # Cardinality(above(n))
  <2>1. \A k \in S : Better(quality, k, m) => Better(quality, k, n)
    BY <1>1, <1>4 DEF Better
  <2>2. ~ Better(quality, m, m)
    BY <1>1 DEF Better
  <2>3. above(m) \in SUBSET above(n) /\ above(m) # above(n)
    BY <2>1, <2>2, <1>4
  <2> QED BY <2>3, <1>3, FS_Subset
<1>5. \A m, n \in S : m # n => f[m] # f[n]
  <2> SUFFICES ASSUME NEW m \in S, NEW n \in S, m # n PROVE f[m] # f[n]
    OBVIOUS
  <2>1. quality[m] > quality[n] \/ quality[n] > quality[m] \/ quality[m] = quality[n]
    BY <1>1
  <2>2. m < n \/ n < m
    BY <1>1
  <2>3. Better(quality, m, n) \/ Better(quality, n, m)
    BY <2>1, <2>2 DEF Better
  <2>4. Cardinality(above(m)) # Cardinality(above(n))
    BY <2>3, <1>4
  <2> HIDE DEF above
  <2> QED BY <2>4
<1>6. \A n \in S : f[n] \in T /\ f[n] = Cardinality(above(n))
  <2> HIDE DEF above, T
  <2> QED BY <1>3
<1>7. f \in Injection(S, T)
  <2> HIDE DEF above, T
  <2> QED BY <1>6, <1>5 DEF Injection, IsInjective
<1>8. IsFiniteSet(T) /\ Cardinality(T) = Cardinality(S)
  BY <1>2, FS_Interval, SMTT(30)
<1>9. f \in Surjection(S, T)
  <2> HIDE DEF f, T
  <2> QED BY <1>7, <1>8, FS_Injection
<1>10. \A t \in T : \E n \in S : f[n] = t
  <2> HIDE DEF f, T
  <2> QED BY <1>9 DEF Surjection
<1>11. ASSUME NEW i \in 1 .. Cardinality(S)
       PROVE  Sorted(S, quality)[i] \in S /\ f[Sorted(S, quality)[i]] = i - 1
  <2>1. i - 1 \in T
    BY <1>2
  <2>2. \E n \in S : Cardinality(above(n)) = i - 1
    <3> HIDE DEF above, T, f
    <3> QED BY <2>1, <1>10, <1>6
  <2>3. Sorted(S, quality)[i] = CHOOSE n \in S : Cardinality(above(n)) = i - 1
    BY DEF Sorted
  <2>4. Sorted(S, quality)[i] \in S /\ Cardinality(above(Sorted(S, quality)[i])) = i - 1
    <3> HIDE DEF above, f
    <3> QED BY <2>2, <2>3
  <2> HIDE DEF above, f, T
  <2> QED BY <2>4, <1>6
<1>12. Sorted(S, quality) \in [1 .. Cardinality(S) -> S]
  BY <1>11 DEF Sorted
<1>13. \A i \in 1 .. Cardinality(S) : Cardinality(above(Sorted(S, quality)[i])) = i - 1
  <2> HIDE DEF f, above, T
  <2> QED BY <1>6, <1>11
<1>14. ASSUME NEW n \in S
       PROVE  \E i \in 1 .. Cardinality(S) : Sorted(S, quality)[i] = n
  <2>1. PICK i : i = f[n] + 1
    OBVIOUS
  <2>2. i \in 1 .. Cardinality(S) /\ f[n] = i - 1
    <3>1. f[n] \in T
      BY <1>6
    <3> HIDE DEF f
    <3> QED BY <2>1, <3>1, <1>2
  <2> HIDE DEF f, above, T
  <2> QED BY <2>2, <1>5, <1>11
<1>15. \A i, j \in 1 .. Cardinality(S) : Sorted(S, quality)[i] = Sorted(S, quality)[j] => i = j
  <2> HIDE DEF f, above, T
  <2> QED BY <1>11
<1> QED BY <1>2, <1>12, <1>13, <1>14, <1>15

-----------------------------------------------------------------------------
(* The inductive invariant.  AlwaysATree is not inductive: that the next   *)
(* node is not in the tree yet, and that the leader it goes to is, depends *)
(* on how far the loops are in filtered and in queue.                      *)

Placing == pc \in {"children", "followers"}

(* Outside the loops nothing is left from an earlier cascade.              *)
FreshStart ==
  pc \in {"idle", "root"} => tree = EmptyTree /\ idx = 1 /\ queue = <<>>

(* filtered holds a node once; idx has not passed its end.                 *)
FilteredOnce ==
  /\ \A i, j \in 1 .. Len(filtered) : filtered[i] = filtered[j] => i = j
  /\ pc # "idle" => filtered # <<>> /\ idx <= Len(filtered) + 1

(* The placed nodes are the first idx - 1 of filtered, at their rank.      *)
PlacedPrefix ==
  \A n \in Node : tree.rank[n] # 0 =>
    tree.rank[n] < idx /\ tree.rank[n] <= Len(filtered) /\ filtered[tree.rank[n]] = n

(* Queued leaders are placed, as leaders on their level, each once; the    *)
(* one being served is among them, and serving it leaves another behind it *)
(* unless the nodes run out.                                               *)
QueueServed ==
  /\ \A k \in 1 .. Len(queue) :
       LET l == queue[k].leader IN
       tree.rank[l] # 0 /\ tree.role[l] = "leader" /\ tree.level[l] = queue[k].depth
  /\ \A j, k \in 1 .. Len(queue) : queue[j].leader = queue[k].leader => j = k
  /\ Placing => qi <= Len(queue)
  /\ pc = "children" => qi + slot <= Len(queue) + 1
  /\ pc = "followers" => idx > Len(filtered) \/ qi < Len(queue)

(* The lists of the leader being served hold no more nodes than slots were *)
(* used; those of the nodes whose turn has not come are empty.             *)
ListsWithinSlots ==
  /\ \A p \in Node : IsFiniteSet(tree.child[p]) /\ IsFiniteSet(tree.foll[p])
  /\ Placing => \A p \in Node :
       (\A k \in 1 .. qi : queue[k].leader # p) => tree.child[p] = {} /\ tree.foll[p] = {}
  /\ pc = "children" =>
       /\ Cardinality(tree.child[queue[qi].leader]) < slot
       /\ tree.foll[queue[qi].leader] = {}
       /\ slot <= Y + 1
  /\ pc = "followers" =>
       Cardinality(tree.foll[queue[qi].leader]) < slot /\ slot <= N + 1

IInv ==
  /\ TypeOK /\ FreshStart /\ FilteredOnce /\ PlacedPrefix /\ QueueServed
  /\ ListsWithinSlots /\ AlwaysATree /\ CapacityRespected /\ NoLeftovers
-----------------------------------------------------------------------------
(* What the updates of the maps do, field by field.                        *)

LEMMA EmptyTreeFacts ==
  /\ EmptyTree \in Trees
  /\ \A n \in Node :
       /\ EmptyTree.rank[n] = 0 /\ EmptyTree.parent[n] = 0
       /\ EmptyTree.child[n] = {} /\ EmptyTree.foll[n] = {}
<1>1. NoTopo \in Topos
  BY DEF NoTopo, Topos
<1> QED BY <1>1 DEF EmptyTree, Trees, Roles

(* Assign gives n its entries and touches nobody else's.                   *)
Assigned(t, n, role, level, p) ==
  /\ t \in Trees
  /\ t.rank   = [tree.rank EXCEPT ![n] = idx]
  /\ t.parent = [tree.parent EXCEPT ![n] = p]
  /\ t.role   = [tree.role EXCEPT ![n] = role]
  /\ t.level  = [tree.level EXCEPT ![n] = level]
  /\ t.child  = tree.child /\ t.foll = tree.foll

LEMMA AssignFacts ==
  ASSUME tree \in Trees, idx \in Nat, NEW n \in Node, NEW role \in Roles,
         NEW level \in Nat, NEW topo \in Topos, NEW p \in Node \cup {0}
  PROVE  Assigned(Assign(n, role, level, topo, p), n, role, level, p)
  BY DEF Assigned, Assign, Trees

LEMMA NewLists ==
  ASSUME NEW t \in Trees, NEW f \in [Node -> SUBSET Node]
  PROVE  /\ [t EXCEPT !.child = f] \in Trees
         /\ [t EXCEPT !.foll = f] \in Trees
  BY DEF Trees

LEMMA AddChildFacts ==
  ASSUME NEW t \in Trees, NEW p \in Node, NEW n \in Node
  PROVE  LET u == [t EXCEPT !.child[p] = @ \cup {n}] IN
         /\ u \in Trees
         /\ u.child = [t.child EXCEPT ![p] = @ \cup {n}]
         /\ u.rank = t.rank /\ u.parent = t.parent /\ u.role = t.role
         /\ u.level = t.level /\ u.foll = t.foll
<1>1. PICK f : f = [t.child EXCEPT ![p] = @ \cup {n}]
  OBVIOUS
<1>2. f \in [Node -> SUBSET Node]
  BY <1>1 DEF Trees
<1>3. [t EXCEPT !.child[p] = @ \cup {n}] = [t EXCEPT !.child = f]
  BY <1>1
<1>. QED BY <1>1, <1>2, <1>3, NewLists DEF Trees

LEMMA AddFollowerFacts ==
  ASSUME NEW t \in Trees, NEW p \in Node, NEW n \in Node
  PROVE  LET u == [t EXCEPT !.foll[p] = @ \cup {n}] IN
         /\ u \in Trees
         /\ u.foll = [t.foll EXCEPT ![p] = @ \cup {n}]
         /\ u.rank = t.rank /\ u.parent = t.parent /\ u.role = t.role
         /\ u.level = t.level /\ u.child = t.child
<1>1. PICK f : f = [t.foll EXCEPT ![p] = @ \cup {n}]
  OBVIOUS
<1>2. f \in [Node -> SUBSET Node]
  BY <1>1 DEF Trees
<1>3. [t EXCEPT !.foll[p] = @ \cup {n}] = [t EXCEPT !.foll = f]
  BY <1>1
<1>. QED BY <1>1, <1>2, <1>3, NewLists DEF Trees

LEMMA TopoTypes ==
  ASSUME NEW path \in Seq(Nat), NEW s \in Nat
  PROVE  LeaderTopo(path) \in Topos /\ FollowerTopo(path, s) \in Topos
  BY DEF LeaderTopo, FollowerTopo, Topos

(* u is t with node n, which nobody knew, placed at rank i under leader p, *)
(* as a child leader or as a follower.                                     *)
Attached(t, u, n, p, i) ==
  /\ t.rank[n] = 0 /\ t.rank[p] # 0 /\ t.rank[p] < i /\ t.role[p] = "leader" /\ 1 < i
  /\ u.rank   = [t.rank EXCEPT ![n] = i]
  /\ u.parent = [t.parent EXCEPT ![n] = p]
  /\ \/ /\ u.role  = [t.role EXCEPT ![n] = "leader"]
        /\ u.level = [t.level EXCEPT ![n] = t.level[p] + 1]
        /\ u.child = [t.child EXCEPT ![p] = @ \cup {n}]
        /\ u.foll  = t.foll
     \/ /\ \E role \in {"sender", "base"} : u.role = [t.role EXCEPT ![n] = role]
        /\ u.level = [t.level EXCEPT ![n] = t.level[p]]
        /\ u.foll  = [t.foll EXCEPT ![p] = @ \cup {n}]
        /\ u.child = t.child

(* A tree stays one when a node is attached to it.                         *)
LEMMA AttachKeepsTree ==
  ASSUME NEW t \in Trees, NEW u \in Trees, IsTree(t),
         NEW n \in Node, NEW p \in Node, NEW i \in Nat, Attached(t, u, n, p, i)
  PROVE  IsTree(u)
<1>1. p # n /\ \A m \in Node : n \notin t.child[m] \cup t.foll[m]
  BY DEF IsTree, Attached
<1>2. \A m \in Node : t.rank[m] > 1 => t.parent[m] # n
  BY DEF IsTree, HangsOn, Attached
<1>3. t.rank \in [Node -> Nat] /\ t.parent \in [Node -> Node \cup {0}]
      /\ t.child \in [Node -> SUBSET Node] /\ t.foll \in [Node -> SUBSET Node]
      /\ t.role \in [Node -> Roles] /\ t.level \in [Node -> Nat]
  BY DEF Trees
<1>4. /\ \A m \in Node : m # n => /\ u.rank[m] = t.rank[m] /\ u.parent[m] = t.parent[m]
                                  /\ u.role[m] = t.role[m] /\ u.level[m] = t.level[m]
      /\ u.rank[n] = i /\ u.parent[n] = p /\ u.rank[p] = t.rank[p]
      /\ u.role[p] = "leader" /\ u.level[p] = t.level[p]
  BY <1>1, <1>3 DEF Attached
<1>5. \A a, m \in Node :
        /\ m # n => (m \in u.child[a] <=> m \in t.child[a])
                    /\ (m \in u.foll[a] <=> m \in t.foll[a])
        /\ n \in u.child[a] \cup u.foll[a] => a = p
  BY <1>1, <1>3 DEF Attached
<1>6. HangsOn(u, n, p)
  <2>1. /\ u.rank[p] # 0 /\ u.rank[p] < u.rank[n]
    BY <1>4 DEF Attached
  <2>2. \/ /\ u.role[n] = "leader" /\ u.level[n] = u.level[p] + 1
           /\ n \in u.child[p] /\ n \notin u.foll[p]
        \/ /\ u.role[n] \in {"sender", "base"} /\ u.level[n] = u.level[p]
           /\ n \in u.foll[p] /\ n \notin u.child[p]
    BY <1>1, <1>3, <1>4 DEF Attached
  <2> QED BY <2>1, <2>2, <1>4 DEF HangsOn
<1>7. ASSUME NEW m \in Node, u.rank[m] > 1
      PROVE  u.parent[m] \in Node /\ HangsOn(u, m, u.parent[m])
  <2>1. CASE m = n
    BY <2>1, <1>4, <1>6
  <2>2. CASE m # n
    <3>1. t.rank[m] > 1 /\ t.parent[m] \in Node /\ HangsOn(t, m, t.parent[m])
      BY <2>2, <1>4, <1>7 DEF IsTree
    <3>2. u.parent[m] = t.parent[m] /\ t.parent[m] # n
      BY <2>2, <1>2, <1>4, <3>1
    <3> QED BY <2>2, <3>1, <3>2, <1>4, <1>5 DEF HangsOn
  <2> QED BY <2>1, <2>2
<1>8. ASSUME NEW m \in Node, u.rank[m] = 1
      PROVE  u.parent[m] = 0 /\ u.role[m] = "leader" /\ u.level[m] = 0
  <2>1. m # n
    BY <1>4, <1>8 DEF Attached
  <2> QED BY <2>1, <1>4, <1>8 DEF IsTree
<1>9. ASSUME NEW a \in Node, NEW m \in Node, m \in u.child[a] \cup u.foll[a]
      PROVE  u.rank[m] > 1 /\ u.parent[m] = a
  <2>1. CASE m = n
    BY <2>1, <1>4, <1>5, <1>9 DEF Attached
  <2>2. CASE m # n
    <3>1. m \in t.child[a] \cup t.foll[a]
      BY <2>2, <1>5, <1>9
    <3> QED BY <2>2, <3>1, <1>4 DEF IsTree
  <2> QED BY <2>1, <2>2
<1> QED BY <1>7, <1>8, <1>9 DEF IsTree
-----------------------------------------------------------------------------
LEMMA EmptyIsTree == IsTree(EmptyTree)
  BY EmptyTreeFacts DEF IsTree

LEMMA EmptyRespectsCapacity ==
  /\ \A p \in Node : IsFiniteSet(EmptyTree.child[p]) /\ IsFiniteSet(EmptyTree.foll[p])
  /\ \A p \in Node : Cardinality(EmptyTree.child[p]) <= Y
                     /\ Cardinality(EmptyTree.foll[p]) <= N
<1>1. IsFiniteSet({}) /\ Cardinality({}) = 0
  BY FS_EmptySet
<1>2. ASSUME NEW p \in Node PROVE EmptyTree.child[p] = {} /\ EmptyTree.foll[p] = {}
  BY EmptyTreeFacts
<1>3. 0 <= Y /\ 0 <= N
  BY CapacityAssumption
<1> QED BY <1>1, <1>2, <1>3

LEMMA InitEstablishes == Init => IInv
<1> SUFFICES ASSUME Init PROVE IInv
  OBVIOUS
<1> USE DEF Init
<1>1. TypeOK
  BY EmptyTreeFacts DEF TypeOK
<1>2. FreshStart /\ FilteredOnce /\ NoLeftovers
  BY DEF FreshStart, FilteredOnce, NoLeftovers
<1>3. PlacedPrefix
  BY EmptyTreeFacts DEF PlacedPrefix
<1>4. QueueServed
  BY DEF QueueServed, Placing
<1>5. ListsWithinSlots
  BY EmptyRespectsCapacity DEF ListsWithinSlots, Placing
<1>6. AlwaysATree
  BY EmptyIsTree DEF AlwaysATree
<1>7. CapacityRespected
  BY EmptyRespectsCapacity DEF CapacityRespected
<1> QED BY <1>1, <1>2, <1>3, <1>4, <1>5, <1>6, <1>7 DEF IInv

LEMMA BeginPreserves == IInv /\ Begin => IInv'
<1> SUFFICES ASSUME IInv, Begin PROVE IInv'
  OBVIOUS
<1> USE DEF IInv, Begin
<1>1. PICK S \in NodeSets \ {{}} : filtered' = Sorted(S, q)
  OBVIOUS
<1>2. /\ Cardinality(S) \in Nat /\ filtered' \in [1 .. Cardinality(S) -> S]
      /\ \A i, j \in 1 .. Cardinality(S) : filtered'[i] = filtered'[j] => i = j
  BY <1>1, SortedIsInjective DEF TypeOK
<1>3. S \subseteq Node /\ Cardinality(S) # 0
  BY FS_EmptySet, NodeAssumption
<1>4. filtered' \in Seq(Node) /\ Len(filtered') = Cardinality(S) /\ filtered' # <<>>
  BY <1>2, <1>3
<1>5. TypeOK'
  BY <1>4 DEF TypeOK
<1>6. FreshStart' /\ NoLeftovers'
  BY DEF FreshStart, NoLeftovers
<1>7. FilteredOnce'
  BY <1>2, <1>4 DEF FilteredOnce, FreshStart
<1>8. PlacedPrefix'
  BY EmptyTreeFacts DEF PlacedPrefix, FreshStart
<1>9. QueueServed'
  BY DEF QueueServed, Placing
<1>10. ListsWithinSlots'
  BY DEF ListsWithinSlots, Placing
<1>11. AlwaysATree' /\ CapacityRespected'
  BY DEF AlwaysATree, CapacityRespected
<1> QED BY <1>5, <1>6, <1>7, <1>8, <1>9, <1>10, <1>11

LEMMA PlaceRootPreserves == IInv /\ PlaceRoot => IInv'
<1> SUFFICES ASSUME IInv, PlaceRoot PROVE IInv'
  OBVIOUS
<1> DEFINE root == filtered[1]
<1> USE DEF IInv
<1>1. /\ tree = EmptyTree /\ idx = 1 /\ filtered # <<>> /\ filtered \in Seq(Node)
      /\ root \in Node /\ Len(filtered) \in Nat \ {0}
  BY DEF PlaceRoot, FreshStart, FilteredOnce, TypeOK
<1>2. RootTopo \in Topos
  BY TopoTypes DEF RootTopo, LeaderTopo, Topos
<1>3. tree' = Assign(root, "leader", 0, RootTopo, 0)
  BY DEF PlaceRoot
<1>4. /\ tree' \in Trees
      /\ tree'.rank   = [EmptyTree.rank EXCEPT ![root] = 1]
      /\ tree'.parent = [EmptyTree.parent EXCEPT ![root] = 0]
      /\ tree'.role   = [EmptyTree.role EXCEPT ![root] = "leader"]
      /\ tree'.level  = [EmptyTree.level EXCEPT ![root] = 0]
      /\ tree'.child = EmptyTree.child /\ tree'.foll = EmptyTree.foll
  <2>1. tree \in Trees /\ idx \in Nat /\ "leader" \in Roles /\ 0 \in Node \cup {0}
    BY <1>1, EmptyTreeFacts DEF Roles
  <2>2. Assigned(tree', root, "leader", 0, 0)
    <3> HIDE DEF root
    <3>1. root \in Node
      BY <1>1
    <3> QED BY <2>1, <3>1, <1>2, <1>3, AssignFacts
  <2> QED BY <2>2, <1>1 DEF Assigned
<1>5. /\ EmptyTree.rank \in [Node -> Nat] /\ EmptyTree.role \in [Node -> Roles]
      /\ EmptyTree.level \in [Node -> Nat] /\ EmptyTree.parent \in [Node -> Node \cup {0}]
  BY EmptyTreeFacts DEF Trees
<1>6. /\ queue' = <<[leader |-> root, path |-> <<>>, depth |-> 0]>>
      /\ idx' = 2 /\ qi' = 1 /\ slot' = 1 /\ filtered' = filtered /\ pub' = pub /\ q' = q
      /\ pc' = IF Len(filtered) > 1 THEN "children" ELSE "publish"
  BY DEF PlaceRoot
<1>7. /\ Len(queue') = 1 /\ queue'[1].leader = root /\ queue'[1].depth = 0
      /\ queue' \in Seq(QueueItem)
  BY <1>1, <1>6 DEF QueueItem
<1>8. TypeOK'
  BY <1>1, <1>4, <1>6, <1>7 DEF TypeOK
<1>9. FreshStart' /\ NoLeftovers'
  BY <1>1, <1>6 DEF FreshStart, NoLeftovers
<1>10. FilteredOnce'
  BY <1>1, <1>6 DEF FilteredOnce
<1>11. PlacedPrefix'
  BY <1>1, <1>4, <1>5, <1>6, EmptyTreeFacts DEF PlacedPrefix
<1>12. QueueServed'
  BY <1>1, <1>4, <1>5, <1>6, <1>7 DEF QueueServed, Placing
<1>13. ListsWithinSlots'
  BY <1>4, <1>6, <1>7, <1>1, EmptyTreeFacts, FS_EmptySet, CapacityAssumption
     DEF ListsWithinSlots, Placing
<1>14. AlwaysATree'
  <2>1. IsTree(tree')
    BY <1>1, <1>4, <1>5, EmptyTreeFacts DEF IsTree
  <2> QED BY <2>1, <1>6 DEF AlwaysATree
<1>15. CapacityRespected'
  BY <1>4, <1>6, EmptyRespectsCapacity DEF CapacityRespected
<1> QED BY <1>8, <1>9, <1>10, <1>11, <1>12, <1>13, <1>14, <1>15

(* What both placing steps start from: the leader served is placed before  *)
(* idx, the node of rank idx is not placed, and nobody lists it.           *)
LEMMA ServedLeader ==
  ASSUME IInv, Placing, idx <= Len(filtered)
  PROVE  LET p == queue[qi].leader
             n == filtered[idx]
         IN  /\ n \in Node /\ tree.rank[n] = 0 /\ tree.child[n] = {} /\ tree.foll[n] = {}
             /\ p \in Node /\ tree.rank[p] # 0 /\ tree.rank[p] < idx
             /\ tree.role[p] = "leader" /\ tree.level[p] = queue[qi].depth
             /\ queue[qi].path \in Seq(Nat) /\ queue[qi].depth \in Nat
             /\ p # n /\ 1 < idx
<1> DEFINE p == queue[qi].leader
           n == filtered[idx]
<1> USE DEF IInv
<1>1. /\ tree \in Trees /\ idx \in Nat \ {0} /\ filtered \in Seq(Node)
      /\ queue \in Seq(QueueItem) /\ qi \in Nat \ {0}
  BY DEF TypeOK
<1>2. qi \in 1 .. Len(queue) /\ Len(queue) \in Nat
  BY <1>1 DEF QueueServed
<1>3. queue[qi] \in QueueItem /\ p \in Node /\ queue[qi].path \in Seq(Nat)
      /\ queue[qi].depth \in Nat
  <2>1. queue[qi] \in QueueItem
    BY <1>1, <1>2
  <2> QED BY <2>1 DEF QueueItem
<1>4. n \in Node /\ idx \in 1 .. Len(filtered)
  BY <1>1
<1>5. tree.rank \in [Node -> Nat]
  BY <1>1 DEF Trees
<1>6. tree.rank[n] = 0
  <2>1. SUFFICES ASSUME tree.rank[n] # 0 PROVE FALSE
    OBVIOUS
  <2>2. tree.rank[n] \in 1 .. Len(filtered) /\ tree.rank[n] < idx
        /\ filtered[tree.rank[n]] = filtered[idx]
    BY <1>1, <1>4, <1>5, <2>1 DEF PlacedPrefix
  <2> QED BY <2>2, <1>4, <1>1 DEF FilteredOnce
<1>7. tree.rank[p] # 0 /\ tree.role[p] = "leader" /\ tree.level[p] = queue[qi].depth
  BY <1>2 DEF QueueServed
<1>8. tree.rank[p] < idx /\ 1 < idx
  BY <1>7, <1>3, <1>5, <1>1 DEF PlacedPrefix
<1>9. \A k \in 1 .. qi : queue[k].leader # n
  <2>1. ASSUME NEW k \in 1 .. qi PROVE k \in 1 .. Len(queue)
    BY <1>1, <1>2
  <2> QED BY <2>1, <1>6 DEF QueueServed
<1>10. tree.child[n] = {} /\ tree.foll[n] = {}
  BY <1>4, <1>9 DEF ListsWithinSlots
<1> QED BY <1>3, <1>4, <1>6, <1>7, <1>8, <1>10

LEMMA PlaceChildPreserves == IInv /\ PlaceChild => IInv'
<1> SUFFICES ASSUME IInv, PlaceChild PROVE IInv'
  OBVIOUS
<1> DEFINE cur  == queue[qi]
           p    == cur.leader
           n    == filtered[idx]
           path == Append(cur.path, slot)
           item == [leader |-> n, path |-> path, depth |-> cur.depth + 1]
<1>1. /\ pc = "children" /\ slot <= Y /\ idx <= Len(filtered)
      /\ idx' = idx + 1 /\ slot' = slot + 1
      /\ q' = q /\ pc' = pc /\ filtered' = filtered /\ qi' = qi /\ pub' = pub
  BY DEF PlaceChild
<1>2. /\ n \in Node /\ tree.rank[n] = 0 /\ tree.child[n] = {} /\ tree.foll[n] = {}
      /\ p \in Node /\ tree.rank[p] # 0 /\ tree.rank[p] < idx
      /\ tree.role[p] = "leader" /\ tree.level[p] = cur.depth
      /\ cur.path \in Seq(Nat) /\ cur.depth \in Nat
      /\ p # n /\ 1 < idx
  BY <1>1, ServedLeader DEF Placing
<1>3. /\ tree' = [Assign(n, "leader", cur.depth + 1, LeaderTopo(path), p)
                    EXCEPT !.child[p] = @ \cup {n}]
      /\ queue' = Append(queue, item)
  BY DEF PlaceChild
<1>4. path = Append(cur.path, slot) /\ queue[qi].leader = p
      /\ item = [leader |-> n, path |-> path, depth |-> cur.depth + 1]
  OBVIOUS
<1> HIDE DEF cur, p, n, path, item
<1>5. /\ tree \in Trees /\ idx \in Nat /\ slot \in Nat \ {0} /\ qi \in Nat \ {0}
      /\ queue \in Seq(QueueItem) /\ filtered \in Seq(Node)
      /\ qi <= Len(queue) /\ Len(queue) \in Nat /\ Len(filtered) \in Nat
  BY <1>1 DEF IInv, TypeOK, QueueServed, Placing
<1>6. path \in Seq(Nat) /\ LeaderTopo(path) \in Topos
  <2>1. path \in Seq(Nat)
    BY <1>2, <1>4, <1>5
  <2> QED BY <2>1 DEF LeaderTopo, Topos
<1>7. /\ tree' \in Trees
      /\ tree'.rank   = [tree.rank EXCEPT ![n] = idx]
      /\ tree'.parent = [tree.parent EXCEPT ![n] = p]
      /\ tree'.role   = [tree.role EXCEPT ![n] = "leader"]
      /\ tree'.level  = [tree.level EXCEPT ![n] = cur.depth + 1]
      /\ tree'.child  = [tree.child EXCEPT ![p] = @ \cup {n}]
      /\ tree'.foll   = tree.foll
  <2>1. "leader" \in Roles /\ cur.depth + 1 \in Nat /\ p \in Node \cup {0}
    BY <1>2 DEF Roles
  <2> DEFINE t == Assign(n, "leader", cur.depth + 1, LeaderTopo(path), p)
  <2>2. Assigned(t, n, "leader", cur.depth + 1, p)
    BY <1>2, <1>5, <1>6, <2>1, AssignFacts
  <2>3. tree' = [t EXCEPT !.child[p] = @ \cup {n}]
    BY <1>3
  <2> HIDE DEF t
  <2> QED BY <2>2, <2>3, <1>2, AddChildFacts DEF Assigned
<1>8. /\ tree.rank \in [Node -> Nat] /\ tree.role \in [Node -> Roles]
      /\ tree.level \in [Node -> Nat] /\ tree.parent \in [Node -> Node \cup {0}]
      /\ tree.child \in [Node -> SUBSET Node] /\ tree.foll \in [Node -> SUBSET Node]
  BY <1>5 DEF Trees
<1>9. item \in QueueItem /\ item.leader = n /\ item.depth = cur.depth + 1
  BY <1>2, <1>4, <1>6 DEF QueueItem
<1>10. /\ queue' \in Seq(QueueItem) /\ Len(queue') = Len(queue) + 1
       /\ \A k \in 1 .. Len(queue) : queue'[k] = queue[k]
       /\ queue'[Len(queue) + 1] = item
  BY <1>3, <1>5, <1>9
<1>11. \A k \in 1 .. Len(queue') : k \in 1 .. Len(queue) \/ k = Len(queue) + 1
  BY <1>5, <1>10
<1>12. queue'[qi] = queue[qi] /\ \A k \in 1 .. qi : queue'[k] = queue[k]
  BY <1>5, <1>10
<1>13. TypeOK'
  <2>1. q' \in [Node -> Quality] /\ pub' \in Trees /\ filtered' \in Seq(Node)
        /\ pc' \in {"idle", "root", "children", "followers", "publish"}
    BY <1>1, <1>5 DEF IInv, TypeOK
  <2>2. idx' \in Nat \ {0} /\ qi' \in Nat \ {0} /\ slot' \in Nat \ {0}
    BY <1>1, <1>5
  <2> QED BY <2>1, <2>2, <1>7, <1>10 DEF TypeOK
<1>14. FreshStart' /\ NoLeftovers'
  BY <1>1 DEF FreshStart, NoLeftovers
<1>15. FilteredOnce'
  BY <1>1, <1>5 DEF IInv, FilteredOnce
<1>16. PlacedPrefix'
  <2> SUFFICES ASSUME NEW m \in Node, tree'.rank[m] # 0
               PROVE  /\ tree'.rank[m] < idx + 1 /\ tree'.rank[m] <= Len(filtered)
                      /\ filtered[tree'.rank[m]] = m
    BY <1>1 DEF PlacedPrefix
  <2>1. CASE m = n
    <3>1. tree'.rank[m] = idx
      BY <2>1, <1>2, <1>7, <1>8
    <3> QED BY <3>1, <2>1, <1>1, <1>5 DEF n
  <2>2. CASE m # n
    <3>1. tree'.rank[m] = tree.rank[m] /\ tree.rank[m] \in Nat
      BY <2>2, <1>7, <1>8
    <3>2. /\ tree.rank[m] < idx /\ tree.rank[m] <= Len(filtered)
          /\ filtered[tree.rank[m]] = m
      BY <2>2, <3>1 DEF IInv, PlacedPrefix
    <3> QED BY <3>1, <3>2, <1>5
  <2> QED BY <2>1, <2>2
<1>17. QueueServed'
  <2>1. ASSUME NEW k \in 1 .. Len(queue)
        PROVE  /\ queue[k].leader \in Node /\ queue[k].leader # n
               /\ tree'.rank[queue[k].leader] # 0
               /\ tree'.role[queue[k].leader] = "leader"
               /\ tree'.level[queue[k].leader] = queue[k].depth
    <3>1. queue[k] \in QueueItem
      BY <1>5
    <3>2. queue[k].leader \in Node
      BY <3>1 DEF QueueItem
    <3>3. /\ tree.rank[queue[k].leader] # 0 /\ tree.role[queue[k].leader] = "leader"
          /\ tree.level[queue[k].leader] = queue[k].depth
      BY DEF IInv, QueueServed
    <3> QED BY <3>2, <3>3, <1>2, <1>7, <1>8
  <2>2. /\ tree'.rank[n] # 0 /\ tree'.role[n] = "leader"
        /\ tree'.level[n] = cur.depth + 1
    BY <1>2, <1>7, <1>8
  <2>3. \A k \in 1 .. Len(queue') :
          /\ tree'.rank[queue'[k].leader] # 0
          /\ tree'.role[queue'[k].leader] = "leader"
          /\ tree'.level[queue'[k].leader] = queue'[k].depth
    BY <1>9, <1>10, <1>11, <2>1, <2>2
  <2>4. \A j, k \in 1 .. Len(queue') : queue'[j].leader = queue'[k].leader => j = k
    <3>1. \A j, k \in 1 .. Len(queue) : queue[j].leader = queue[k].leader => j = k
      BY DEF IInv, QueueServed
    <3> QED BY <3>1, <1>9, <1>10, <1>11, <2>1
  <2>5. qi + slot <= Len(queue) + 1
    BY <1>1 DEF IInv, QueueServed
  <2>6. qi' <= Len(queue') /\ qi' + slot' <= Len(queue') + 1
    BY <2>5, <1>1, <1>5, <1>10
  <2> QED BY <2>3, <2>4, <2>6, <1>1 DEF QueueServed, Placing
<1>18. tree'.child[p] = tree.child[p] \cup {n}
       /\ \A m \in Node : m # p => tree'.child[m] = tree.child[m]
  BY <1>2, <1>7, <1>8
<1>19. /\ IsFiniteSet(tree.child[p]) /\ Cardinality(tree.child[p]) < slot
       /\ Cardinality(tree.child[p]) \in Nat /\ tree.foll[p] = {}
  <2>1. IsFiniteSet(tree.child[p]) /\ Cardinality(tree.child[p]) < slot /\ tree.foll[p] = {}
    BY <1>1, <1>2, <1>4 DEF IInv, ListsWithinSlots
  <2> QED BY <2>1, FS_CardinalityType
<1>20. /\ IsFiniteSet(tree'.child[p]) /\ Cardinality(tree'.child[p]) <= slot
       /\ Cardinality(tree'.child[p]) \in Nat
  <2>1. /\ IsFiniteSet(tree.child[p] \cup {n})
        /\ Cardinality(tree.child[p] \cup {n}) <= Cardinality(tree.child[p]) + 1
    BY <1>19, FS_AddElement
  <2>2. Cardinality(tree.child[p] \cup {n}) \in Nat
    BY <2>1, FS_CardinalityType
  <2> QED BY <2>1, <2>2, <1>5, <1>18, <1>19
<1>21. ListsWithinSlots'
  <2>1. ASSUME NEW m \in Node PROVE IsFiniteSet(tree'.child[m]) /\ IsFiniteSet(tree'.foll[m])
    BY <1>7, <1>18, <1>20 DEF IInv, ListsWithinSlots
  <2>2. ASSUME NEW m \in Node, \A k \in 1 .. qi : queue'[k].leader # m
        PROVE  tree'.child[m] = {} /\ tree'.foll[m] = {}
    <3>1. qi \in 1 .. qi
      BY <1>5
    <3>2. m # p
      BY <2>2, <3>1, <1>4, <1>12
    <3>3. \A k \in 1 .. qi : queue[k].leader # m
      BY <2>2, <1>12
    <3>4. tree.child[m] = {} /\ tree.foll[m] = {}
      BY <3>3, <1>1 DEF IInv, ListsWithinSlots, Placing
    <3> QED BY <3>2, <3>4, <1>7, <1>18
  <2>3. /\ Cardinality(tree'.child[p]) < slot + 1 /\ slot + 1 <= Y + 1
    BY <1>1, <1>5, <1>20, CapacityAssumption
  <2>4. tree'.foll[p] = {} /\ queue'[qi].leader = p
    BY <1>4, <1>7, <1>12, <1>19
  <2> QED BY <2>1, <2>2, <2>3, <2>4, <1>1 DEF ListsWithinSlots, Placing
<1>22. AlwaysATree'
  <2>1. IsTree(tree) /\ IsTree(pub)
    BY DEF IInv, AlwaysATree
  <2>2. Attached(tree, tree', n, p, idx)
    BY <1>2, <1>7 DEF Attached
  <2>3. IsTree(tree')
    BY <2>1, <2>2, <1>2, <1>5, <1>7, AttachKeepsTree
  <2> QED BY <2>1, <2>3, <1>1 DEF AlwaysATree
<1>23. CapacityRespected'
  <2>1. Cardinality(tree'.child[p]) <= Y
    BY <1>1, <1>5, <1>20, CapacityAssumption
  <2>2. ASSUME NEW m \in Node
        PROVE  Cardinality(tree'.child[m]) <= Y /\ Cardinality(tree'.foll[m]) <= N
    BY <2>1, <1>7, <1>18 DEF IInv, CapacityRespected
  <2> QED BY <2>2, <1>1 DEF IInv, CapacityRespected
<1> QED BY <1>13, <1>14, <1>15, <1>16, <1>17, <1>21, <1>22, <1>23 DEF IInv

LEMMA PlaceFollowerPreserves == IInv /\ PlaceFollower => IInv'
<1> SUFFICES ASSUME IInv, PlaceFollower PROVE IInv'
  OBVIOUS
<1> DEFINE cur  == queue[qi]
           p    == cur.leader
           n    == filtered[idx]
           role == FollowerRole(n)
           topo == FollowerTopo(cur.path, slot)
<1>1. /\ pc = "followers" /\ slot <= N /\ idx <= Len(filtered)
      /\ idx' = idx + 1 /\ slot' = slot + 1 /\ queue' = queue
      /\ q' = q /\ pc' = pc /\ filtered' = filtered /\ qi' = qi /\ pub' = pub
  BY DEF PlaceFollower
<1>2. /\ n \in Node /\ tree.rank[n] = 0 /\ tree.child[n] = {} /\ tree.foll[n] = {}
      /\ p \in Node /\ tree.rank[p] # 0 /\ tree.rank[p] < idx
      /\ tree.role[p] = "leader" /\ tree.level[p] = cur.depth
      /\ cur.path \in Seq(Nat) /\ cur.depth \in Nat
      /\ p # n /\ 1 < idx
  BY <1>1, ServedLeader DEF Placing
<1>3. tree' = [Assign(n, role, cur.depth, topo, p) EXCEPT !.foll[p] = @ \cup {n}]
  BY DEF PlaceFollower
<1>4. queue[qi].leader = p /\ role \in {"sender", "base"}
  BY DEF FollowerRole
<1>5. topo \in Topos
  <2>1. slot \in Nat
    BY DEF IInv, TypeOK
  <2> QED BY <2>1, <1>2, TopoTypes
<1> HIDE DEF cur, p, n, role, topo
<1>6. /\ tree \in Trees /\ idx \in Nat /\ slot \in Nat \ {0} /\ qi \in Nat \ {0}
      /\ queue \in Seq(QueueItem) /\ filtered \in Seq(Node)
      /\ qi <= Len(queue) /\ Len(queue) \in Nat /\ Len(filtered) \in Nat
  BY <1>1 DEF IInv, TypeOK, QueueServed, Placing
<1>7. /\ tree' \in Trees
      /\ tree'.rank   = [tree.rank EXCEPT ![n] = idx]
      /\ tree'.parent = [tree.parent EXCEPT ![n] = p]
      /\ tree'.role   = [tree.role EXCEPT ![n] = role]
      /\ tree'.level  = [tree.level EXCEPT ![n] = cur.depth]
      /\ tree'.foll   = [tree.foll EXCEPT ![p] = @ \cup {n}]
      /\ tree'.child  = tree.child
  <2>1. role \in Roles /\ p \in Node \cup {0}
    BY <1>2, <1>4 DEF Roles
  <2> DEFINE t == Assign(n, role, cur.depth, topo, p)
  <2>2. Assigned(t, n, role, cur.depth, p)
    BY <1>2, <1>5, <1>6, <2>1, AssignFacts
  <2>3. tree' = [t EXCEPT !.foll[p] = @ \cup {n}]
    BY <1>3
  <2> HIDE DEF t
  <2> QED BY <2>2, <2>3, <1>2, AddFollowerFacts DEF Assigned
<1>8. /\ tree.rank \in [Node -> Nat] /\ tree.role \in [Node -> Roles]
      /\ tree.level \in [Node -> Nat] /\ tree.parent \in [Node -> Node \cup {0}]
      /\ tree.child \in [Node -> SUBSET Node] /\ tree.foll \in [Node -> SUBSET Node]
  BY <1>6 DEF Trees
<1>9. TypeOK'
  <2>1. /\ q' \in [Node -> Quality] /\ pub' \in Trees /\ filtered' \in Seq(Node)
        /\ pc' \in {"idle", "root", "children", "followers", "publish"}
        /\ queue' \in Seq(QueueItem)
    BY <1>1, <1>6 DEF IInv, TypeOK
  <2>2. idx' \in Nat \ {0} /\ qi' \in Nat \ {0} /\ slot' \in Nat \ {0}
    BY <1>1, <1>6
  <2> QED BY <2>1, <2>2, <1>7 DEF TypeOK
<1>10. FreshStart' /\ NoLeftovers'
  BY <1>1 DEF FreshStart, NoLeftovers
<1>11. FilteredOnce'
  BY <1>1, <1>6 DEF IInv, FilteredOnce
<1>12. PlacedPrefix'
  <2> SUFFICES ASSUME NEW m \in Node, tree'.rank[m] # 0
               PROVE  /\ tree'.rank[m] < idx + 1 /\ tree'.rank[m] <= Len(filtered)
                      /\ filtered[tree'.rank[m]] = m
    BY <1>1 DEF PlacedPrefix
  <2>1. CASE m = n
    <3>1. tree'.rank[m] = idx
      BY <2>1, <1>2, <1>7, <1>8
    <3> QED BY <3>1, <2>1, <1>1, <1>6 DEF n
  <2>2. CASE m # n
    <3>1. tree'.rank[m] = tree.rank[m] /\ tree.rank[m] \in Nat
      BY <2>2, <1>7, <1>8
    <3>2. /\ tree.rank[m] < idx /\ tree.rank[m] <= Len(filtered)
          /\ filtered[tree.rank[m]] = m
      BY <2>2, <3>1 DEF IInv, PlacedPrefix
    <3> QED BY <3>1, <3>2, <1>6
  <2> QED BY <2>1, <2>2
<1>13. QueueServed'
  <2>1. ASSUME NEW k \in 1 .. Len(queue)
        PROVE  /\ tree'.rank[queue[k].leader] # 0
               /\ tree'.role[queue[k].leader] = "leader"
               /\ tree'.level[queue[k].leader] = queue[k].depth
    <3>1. queue[k] \in QueueItem
      BY <1>6
    <3>2. queue[k].leader \in Node
      BY <3>1 DEF QueueItem
    <3>3. /\ tree.rank[queue[k].leader] # 0 /\ tree.role[queue[k].leader] = "leader"
          /\ tree.level[queue[k].leader] = queue[k].depth
      BY DEF IInv, QueueServed
    <3> QED BY <3>2, <3>3, <1>2, <1>7, <1>8
  <2>2. \A j, k \in 1 .. Len(queue) : queue[j].leader = queue[k].leader => j = k
    BY DEF IInv, QueueServed
  <2>3. qi < Len(queue)
    BY <1>1, <1>6 DEF IInv, QueueServed
  <2> QED BY <2>1, <2>2, <2>3, <1>1, <1>6 DEF QueueServed, Placing
<1>14. tree'.foll[p] = tree.foll[p] \cup {n}
       /\ \A m \in Node : m # p => tree'.foll[m] = tree.foll[m]
  BY <1>2, <1>7, <1>8
<1>15. /\ IsFiniteSet(tree.foll[p]) /\ Cardinality(tree.foll[p]) < slot
       /\ Cardinality(tree.foll[p]) \in Nat
  <2>1. IsFiniteSet(tree.foll[p]) /\ Cardinality(tree.foll[p]) < slot
    BY <1>1, <1>2, <1>4 DEF IInv, ListsWithinSlots
  <2> QED BY <2>1, FS_CardinalityType
<1>16. /\ IsFiniteSet(tree'.foll[p]) /\ Cardinality(tree'.foll[p]) <= slot
       /\ Cardinality(tree'.foll[p]) \in Nat
  <2>1. /\ IsFiniteSet(tree.foll[p] \cup {n})
        /\ Cardinality(tree.foll[p] \cup {n}) <= Cardinality(tree.foll[p]) + 1
    BY <1>15, FS_AddElement, SMTT(30)
  <2>2. Cardinality(tree.foll[p] \cup {n}) \in Nat
    BY <2>1, FS_CardinalityType
  <2> QED BY <2>1, <2>2, <1>6, <1>14, <1>15
<1>17. ListsWithinSlots'
  <2>1. ASSUME NEW m \in Node PROVE IsFiniteSet(tree'.child[m]) /\ IsFiniteSet(tree'.foll[m])
    BY <1>7, <1>14, <1>16 DEF IInv, ListsWithinSlots
  <2>2. ASSUME NEW m \in Node, \A k \in 1 .. qi : queue[k].leader # m
        PROVE  tree'.child[m] = {} /\ tree'.foll[m] = {}
    <3>1. m # p
      BY <2>2, <1>4, <1>6
    <3>2. tree.child[m] = {} /\ tree.foll[m] = {}
      BY <2>2, <1>1 DEF IInv, ListsWithinSlots, Placing
    <3> QED BY <3>1, <3>2, <1>7, <1>14
  <2>3. Cardinality(tree'.foll[p]) < slot + 1 /\ slot + 1 <= N + 1
    BY <1>1, <1>6, <1>16, CapacityAssumption
  <2> QED BY <2>1, <2>2, <2>3, <1>1, <1>4 DEF ListsWithinSlots, Placing
<1>18. AlwaysATree'
  <2>1. IsTree(tree) /\ IsTree(pub)
    BY DEF IInv, AlwaysATree
  <2>2. Attached(tree, tree', n, p, idx)
    BY <1>2, <1>4, <1>7 DEF Attached
  <2>3. IsTree(tree')
    BY <2>1, <2>2, <1>2, <1>6, <1>7, AttachKeepsTree
  <2> QED BY <2>1, <2>3, <1>1 DEF AlwaysATree
<1>19. CapacityRespected'
  <2>1. Cardinality(tree'.foll[p]) <= N
    BY <1>1, <1>6, <1>16, CapacityAssumption
  <2>2. ASSUME NEW m \in Node
        PROVE  Cardinality(tree'.child[m]) <= Y /\ Cardinality(tree'.foll[m]) <= N
    BY <2>1, <1>7, <1>14 DEF IInv, CapacityRespected
  <2> QED BY <2>2, <1>1 DEF IInv, CapacityRespected
<1> QED BY <1>9, <1>10, <1>11, <1>12, <1>13, <1>17, <1>18, <1>19 DEF IInv

LEMMA EndChildrenPreserves == IInv /\ EndChildren => IInv'
<1> SUFFICES ASSUME IInv, EndChildren PROVE IInv'
  OBVIOUS
<1>1. /\ pc = "children" /\ ~ (slot <= Y /\ idx <= Len(filtered))
      /\ pc' = "followers" /\ slot' = 1
      /\ q' = q /\ filtered' = filtered /\ idx' = idx /\ queue' = queue /\ qi' = qi
      /\ tree' = tree /\ pub' = pub
  BY DEF EndChildren
<1>2. /\ idx \in Nat /\ slot \in Nat \ {0} /\ qi \in Nat \ {0} /\ Len(queue) \in Nat
      /\ Len(filtered) \in Nat /\ Y \in Nat \ {0} /\ N \in Nat \ {0}
  BY CapacityAssumption DEF IInv, TypeOK
<1>3. TypeOK' /\ FreshStart' /\ NoLeftovers' /\ FilteredOnce' /\ PlacedPrefix'
      /\ AlwaysATree' /\ CapacityRespected'
  BY <1>1 DEF IInv, TypeOK, FreshStart, NoLeftovers, FilteredOnce, PlacedPrefix,
              AlwaysATree, CapacityRespected
<1>4. QueueServed'
  <2>1. idx > Len(filtered) \/ qi < Len(queue)
    BY <1>1, <1>2 DEF IInv, QueueServed
  <2> QED BY <2>1, <1>1 DEF IInv, QueueServed, Placing
<1>5. ListsWithinSlots'
  <2>1. tree.foll[queue[qi].leader] = {}
    BY <1>1 DEF IInv, ListsWithinSlots
  <2>2. Cardinality(tree.foll[queue[qi].leader]) < 1 /\ 1 <= N + 1
    BY <2>1, <1>2, FS_EmptySet
  <2> QED BY <2>2, <1>1 DEF IInv, ListsWithinSlots, Placing
<1> QED BY <1>3, <1>4, <1>5 DEF IInv

LEMMA EndFollowersPreserves == IInv /\ EndFollowers => IInv'
<1> SUFFICES ASSUME IInv, EndFollowers PROVE IInv'
  OBVIOUS
<1>1. /\ pc = "followers" /\ ~ (slot <= N /\ idx <= Len(filtered))
      /\ qi' = qi + 1 /\ slot' = 1
      /\ pc' = IF qi' <= Len(queue) /\ idx <= Len(filtered) THEN "children" ELSE "publish"
      /\ q' = q /\ filtered' = filtered /\ idx' = idx /\ queue' = queue
      /\ tree' = tree /\ pub' = pub
  BY DEF EndFollowers
<1>2. /\ idx \in Nat /\ slot \in Nat \ {0} /\ qi \in Nat \ {0} /\ Len(queue) \in Nat
      /\ Len(filtered) \in Nat /\ Y \in Nat \ {0} /\ N \in Nat \ {0}
      /\ queue \in Seq(QueueItem)
  BY CapacityAssumption DEF IInv, TypeOK
<1>3. idx > Len(filtered) \/ qi < Len(queue)
  BY <1>1 DEF IInv, QueueServed
<1>4. pc' = "publish" => idx > Len(filtered)
  BY <1>1, <1>2, <1>3
<1>5. pc' \in {"children", "publish"} /\ (pc' = "children" => qi + 1 <= Len(queue))
  BY <1>1
<1>6. TypeOK'
  BY <1>1, <1>2, <1>5 DEF IInv, TypeOK
<1>7. FreshStart' /\ NoLeftovers' /\ FilteredOnce' /\ PlacedPrefix'
      /\ AlwaysATree' /\ CapacityRespected'
  BY <1>1, <1>4, <1>5 DEF IInv, FreshStart, NoLeftovers, FilteredOnce, PlacedPrefix,
              AlwaysATree, CapacityRespected
<1>8. QueueServed'
  <2>1. pc' = "children" => qi' + slot' <= Len(queue) + 1 /\ qi' <= Len(queue)
    BY <1>1, <1>2, <1>5
  <2> QED BY <2>1, <1>1, <1>5 DEF IInv, QueueServed, Placing
<1>9. ListsWithinSlots'
  <2>1. ASSUME pc' = "children"
        PROVE  /\ Cardinality(tree.child[queue[qi + 1].leader]) < 1
               /\ tree.foll[queue[qi + 1].leader] = {}
    <3>1. qi + 1 \in 1 .. Len(queue) /\ \A k \in 1 .. qi : k \in 1 .. Len(queue) /\ k # qi + 1
      BY <1>2, <1>5, <2>1
    <3>2. \A k \in 1 .. qi : queue[k].leader # queue[qi + 1].leader
      BY <3>1 DEF IInv, QueueServed
    <3>3. queue[qi + 1].leader \in Node
      <4>1. queue[qi + 1] \in QueueItem
        BY <3>1, <1>2
      <4> QED BY <4>1 DEF QueueItem
    <3>4. tree.child[queue[qi + 1].leader] = {} /\ tree.foll[queue[qi + 1].leader] = {}
      BY <3>2, <3>3, <1>1 DEF IInv, ListsWithinSlots, Placing
    <3> QED BY <3>4, FS_EmptySet
  <2>2. ASSUME NEW m \in Node, \A k \in 1 .. qi + 1 : queue[k].leader # m
        PROVE  tree.child[m] = {} /\ tree.foll[m] = {}
    <3>1. \A k \in 1 .. qi : k \in 1 .. qi + 1
      BY <1>2
    <3>2. \A k \in 1 .. qi : queue[k].leader # m
      BY <2>2, <3>1
    <3> QED BY <3>2, <1>1 DEF IInv, ListsWithinSlots, Placing
  <2>3. 1 <= Y + 1
    BY <1>2
  <2> QED BY <2>1, <2>2, <2>3, <1>1, <1>5 DEF IInv, ListsWithinSlots, Placing
<1> QED BY <1>6, <1>7, <1>8, <1>9 DEF IInv

LEMMA PublishPreserves == IInv /\ Publish => IInv'
<1> SUFFICES ASSUME IInv, Publish PROVE IInv'
  OBVIOUS
<1>1. /\ pub' = tree /\ tree' = EmptyTree /\ pc' = "idle" /\ q' = q
      /\ filtered' = <<>> /\ idx' = 1 /\ queue' = <<>> /\ qi' = 1 /\ slot' = 1
  BY DEF Publish
<1>2. TypeOK'
  BY <1>1, EmptyTreeFacts DEF IInv, TypeOK
<1>3. FreshStart' /\ NoLeftovers' /\ FilteredOnce'
  BY <1>1 DEF FreshStart, NoLeftovers, FilteredOnce
<1>4. PlacedPrefix'
  BY <1>1, EmptyTreeFacts DEF PlacedPrefix
<1>5. QueueServed'
  BY <1>1 DEF QueueServed, Placing
<1>6. ListsWithinSlots'
  BY <1>1, EmptyRespectsCapacity DEF ListsWithinSlots, Placing
<1>7. AlwaysATree'
  BY <1>1, EmptyIsTree DEF IInv, AlwaysATree
<1>8. CapacityRespected'
  BY <1>1, EmptyRespectsCapacity DEF IInv, CapacityRespected
<1> QED BY <1>2, <1>3, <1>4, <1>5, <1>6, <1>7, <1>8 DEF IInv

LEMMA NextPreserves == IInv /\ [Next]_vars => IInv'
<1>1. IInv /\ UNCHANGED vars => IInv'
  BY DEF vars, IInv, TypeOK, FreshStart, FilteredOnce, PlacedPrefix, QueueServed,
         ListsWithinSlots, AlwaysATree, CapacityRespected, NoLeftovers, Placing
<1> QED BY <1>1, BeginPreserves, PlaceRootPreserves, PlaceChildPreserves,
           EndChildrenPreserves, PlaceFollowerPreserves, EndFollowersPreserves,
           PublishPreserves DEF Next

LEMMA Invariance == Spec => []IInv
<1>1. Init => IInv
  BY InitEstablishes
<1>2. IInv /\ [Next]_vars => IInv'
  BY NextPreserves
<1> QED BY <1>1, <1>2, PTL DEF Spec
-----------------------------------------------------------------------------
(* The closed form.  The numbers first.                                    *)
LEMMA LeastNumber ==
  ASSUME NEW S \in SUBSET Nat, S # {}
  PROVE  \E n \in S : \A m \in S : n <= m
<1>. DEFINE U == {0 .. n : n \in S}
<1>1. U \subseteq FiniteSubsetsOf(Nat) /\ U # {}
  <2>1. \A n \in S : IsFiniteSet(0 .. n) /\ 0 .. n \in SUBSET Nat
    BY FS_Interval
  <2>. QED
    BY <2>1 DEF FiniteSubsetsOf
<1>2. \E x \in U : \A y \in U : ~(<<y, x>> \in StrictSubsetOrdering(Nat))
  <2>. HIDE DEF U
  <2>. QED
    BY <1>1, FS_StrictSubsetOrderingWellFounded, WFMin
<1>3. PICK n \in S : \A m \in S : ~(<<0 .. m, 0 .. n>> \in StrictSubsetOrdering(Nat))
  BY <1>2
<1>4. ASSUME NEW m \in S, m < n
      PROVE  FALSE
  <2>. DEFINE a == 0 .. m
              b == 0 .. n
  <2>1. n \in Nat /\ m \in Nat
    OBVIOUS
  <2>2. a \in SUBSET Nat /\ b \in SUBSET Nat /\ a \subseteq b /\ a # b
    <3>1. n \in b /\ n \notin a
      BY <1>4, <2>1
    <3>. QED
      BY <1>4, <2>1, <3>1
  <2>3. ~(<<a, b>> \in StrictSubsetOrdering(Nat))
    BY <1>3
  <2>. HIDE DEF a, b
  <2>. QED
    BY <2>2, <2>3 DEF StrictSubsetOrdering
<1>. QED
  BY <1>3, <1>4

(* Division with remainder.                                                *)
LEMMA DivisionBounds ==
  ASSUME NEW a \in Nat, NEW b \in Nat \ {0}
  PROVE  a \div b \in 0 .. a
BY SMT

DepthOn(m, f) == f = [k \in 0 .. m |-> IF k = 0 THEN 0 ELSE f[(k - 1) \div Y] + 1]

(* The recursion that QueueLevel stands for has a solution: by the least   *)
(* bound for which it would not.                                           *)
LEMMA DepthExists ==
  ASSUME NEW m \in Nat
  PROVE  \E f : DepthOn(m, f)
<1>. DEFINE Bad == {n \in Nat : ~ \E f : DepthOn(n, f)}
<1>1. SUFFICES ASSUME Bad # {} PROVE FALSE
  OBVIOUS
<1>2. PICK n \in Bad : \A k \in Bad : n <= k
  BY <1>1, LeastNumber
<1>3. n # 0
  <2>1. DepthOn(0, [k \in 0 .. 0 |-> 0])
    BY DEF DepthOn
  <2>. QED BY <2>1
<1>4. PICK f : DepthOn(n - 1, f)
  <2>1. n - 1 \in Nat /\ n - 1 \notin Bad
    BY <1>2, <1>3
  <2>. QED BY <2>1
<1>. DEFINE g == [k \in 0 .. n |-> IF k < n THEN f[k] ELSE f[(n - 1) \div Y] + 1]
<1>5. ASSUME NEW k \in 0 .. n
      PROVE  g[k] = IF k = 0 THEN 0 ELSE g[(k - 1) \div Y] + 1
  <2>1. CASE k = 0
    BY <1>3, <1>4, <2>1 DEF DepthOn
  <2>2. CASE k # 0
    <3>1. (k - 1) \div Y \in 0 .. (k - 1)
      <4>1. k - 1 \in Nat
        BY <2>2
      <4>. QED
        BY <4>1, CapacityAssumption, DivisionBounds
    <3>2. (k - 1) \div Y \in 0 .. n /\ (k - 1) \div Y < n
      BY <3>1
    <3>3. g[(k - 1) \div Y] = f[(k - 1) \div Y]
      BY <3>2
    <3>4. CASE k = n
      BY <2>2, <3>3, <3>4
    <3>5. CASE k < n
      <4>1. f[k] = f[(k - 1) \div Y] + 1
        <5>1. k \in 0 .. (n - 1)
          BY <3>5
        <5>. QED
          BY <1>4, <2>2, <5>1 DEF DepthOn
      <4>. QED
        BY <2>2, <3>3, <3>5, <4>1
    <3>. QED
      BY <3>4, <3>5
  <2>. QED BY <2>1, <2>2
<1>6. DepthOn(n, g)
  <2>1. g = [k \in 0 .. n |-> g[k]]
    OBVIOUS
  <2>. HIDE DEF g
  <2>. QED
    BY <1>5, <2>1 DEF DepthOn
<1>. QED
  BY <1>6

(* The recursion has one solution.                                         *)
LEMMA DepthIsOne ==
  ASSUME NEW m \in Nat, NEW n \in Nat, m <= n, NEW f, NEW g, DepthOn(m, f), DepthOn(n, g)
  PROVE  \A k \in 0 .. m : f[k] = g[k]
<1>. DEFINE Bad == {k \in 0 .. m : f[k] # g[k]}
<1>1. SUFFICES ASSUME Bad # {} PROVE FALSE
  OBVIOUS
<1>2. PICK k \in Bad : \A j \in Bad : k <= j
  <2>1. Bad \in SUBSET Nat
    OBVIOUS
  <2>. HIDE DEF Bad
  <2>. QED BY <1>1, <2>1, LeastNumber
<1>3. k \in 0 .. m /\ k \in 0 .. n
  OBVIOUS
<1>4. /\ f[k] = IF k = 0 THEN 0 ELSE f[(k - 1) \div Y] + 1
      /\ g[k] = IF k = 0 THEN 0 ELSE g[(k - 1) \div Y] + 1
  <2>. HIDE DEF Bad
  <2>. QED BY <1>3 DEF DepthOn
<1>5. k # 0
  BY <1>4
<1>6. (k - 1) \div Y \in 0 .. (k - 1)
  <2>1. k - 1 \in Nat
    BY <1>3, <1>5
  <2>. QED
    BY <2>1, CapacityAssumption, DivisionBounds
<1>7. f[(k - 1) \div Y] = g[(k - 1) \div Y]
  BY <1>2, <1>3, <1>6
<1>. QED
  BY <1>4, <1>5, <1>7

LEMMA QueueLevelIs ==
  /\ QueueLevel(0)[0] = 0
  /\ \A k \in Nat \ {0} :
       QueueLevel(k)[k] = QueueLevel((k - 1) \div Y)[(k - 1) \div Y] + 1
<1>1. ASSUME NEW m \in Nat
      PROVE  DepthOn(m, QueueLevel(m))
  BY DepthExists DEF QueueLevel, DepthOn
<1>2. QueueLevel(0)[0] = 0
  BY <1>1 DEF DepthOn
<1>3. ASSUME NEW k \in Nat \ {0}
      PROVE  QueueLevel(k)[k] = QueueLevel((k - 1) \div Y)[(k - 1) \div Y] + 1
  <2>1. PICK d : d = (k - 1) \div Y
    OBVIOUS
  <2>2. d \in 0 .. (k - 1)
    <3>1. k - 1 \in Nat
      OBVIOUS
    <3>. QED
      BY <2>1, <3>1, CapacityAssumption, DivisionBounds
  <2>3. QueueLevel(k)[k] = QueueLevel(k)[d] + 1
    <3>1. k \in 0 .. k /\ k # 0
      OBVIOUS
    <3>. QED
      BY <1>1, <2>1, <3>1 DEF DepthOn
  <2>4. QueueLevel(d)[d] = QueueLevel(k)[d]
    <3>1. d \in Nat /\ d <= k /\ d \in 0 .. d
      BY <2>2
    <3>. QED
      BY <1>1, <3>1, DepthIsOne
  <2>. QED
    BY <2>1, <2>3, <2>4
<1>. QED
  BY <1>2, <1>3

LEMMA DivisionIs ==
  ASSUME NEW w \in Nat \ {0}, NEW c \in Nat, NEW s \in 0 .. w - 1
  PROVE  (c * w + s) \div w = c /\ (c * w + s) % w = s
BY SMT

(* The rank of the s-th place of group c; and, if it is a leader's, its    *)
(* place in the queue.                                                     *)
LEMMA PlacesOfGroups ==
  ASSUME NEW c \in Nat, NEW s \in 0 .. Y + N - 1
  PROVE  /\ c * (Y + N) \in Nat /\ c * Y \in Nat
         /\ GroupOf(2 + c * (Y + N) + s) = c
         /\ SlotOf(2 + c * (Y + N) + s) = s
         /\ s < Y =>
              /\ (c * Y + s) \div Y = c /\ (c * Y + s) % Y = s
              /\ QueueRank(1 + c * Y + s) = 2 + c * (Y + N) + s
<1>1. Y \in Nat \ {0} /\ N \in Nat \ {0} /\ Y + N \in Nat \ {0} /\ s \in Nat
  BY CapacityAssumption
<1>2. PICK w : w = Y + N
  OBVIOUS
<1>3. PICK x, y : x = c * w /\ y = c * Y
  OBVIOUS
<1>4. x \in Nat /\ y \in Nat
  BY <1>1, <1>2, <1>3, SMT
<1>5. (x + s) \div w = c /\ (x + s) % w = s
  BY <1>1, <1>2, <1>3, DivisionIs
<1>6. GroupOf(2 + x + s) = c /\ SlotOf(2 + x + s) = s
  <2>1. (2 + x + s) - 2 = x + s
    BY <1>1, <1>4
  <2>. QED
    BY <1>2, <1>5, <2>1 DEF GroupOf, SlotOf
<1>7. ASSUME s < Y
      PROVE  (y + s) \div Y = c /\ (y + s) % Y = s /\ QueueRank(1 + y + s) = 2 + x + s
  <2>1. s \in 0 .. Y - 1
    BY <1>1, <1>7
  <2>2. (y + s) \div Y = c /\ (y + s) % Y = s
    BY <1>1, <1>3, <2>1, DivisionIs
  <2>3. (1 + y + s) - 1 = y + s /\ 1 + y + s # 0
    BY <1>1, <1>4
  <2>. QED
    BY <1>2, <1>3, <2>2, <2>3 DEF QueueRank
<1>. QED
  BY <1>2, <1>3, <1>4, <1>6, <1>7
-----------------------------------------------------------------------------
(* The second part of the invariant: where the loops are, and what follows *)
(* from it for the queue and for the maps.                                 *)

(* While there is something to place, the place it gets in the group of    *)
(* the leader being served is that of its rank.                            *)
LoopsInForm ==
  Placing /\ idx <= Len(filtered) =>
    \/ /\ pc = "children"
       /\ idx = 2 + (qi - 1) * (Y + N) + (slot - 1)
       /\ Len(queue) = 1 + (qi - 1) * Y + (slot - 1)
    \/ /\ pc = "followers"
       /\ idx = 2 + (qi - 1) * (Y + N) + (Y + slot - 1)
       /\ Len(queue) = 1 + qi * Y

(* The leader a queued one was taken by, by its place in the queue, and    *)
(* the slot it got.                                                        *)
TakerOf(k)  == ((k - 2) \div Y) + 1
TakenAt(k)  == ((k - 2) % Y) + 1

QueueInForm ==
  /\ \A k \in 1 .. Len(queue) :
       /\ tree.rank[queue[k].leader] = QueueRank(k - 1)
       /\ queue[k].depth = QueueLevel(k - 1)[k - 1]
  /\ queue # <<>> => queue[1].path = <<>>
  /\ \A k \in 2 .. Len(queue) :
       /\ TakerOf(k) \in 1 .. Len(queue)
       /\ queue[k].path = Append(queue[TakerOf(k)].path, TakenAt(k))
  /\ \A j, k \in 1 .. Len(queue) : queue[j].path = queue[k].path => j = k

InForm(t) ==
  \A n \in Node : t.rank[n] # 0 =>
    /\ t.level[n] = LevelAtRank(t.rank[n])
    /\ (t.role[n] = "leader") = LeadsAtRank(t.rank[n])
    /\ t.rank[n] > 1 => t.rank[t.parent[n]] = ParentRank(t.rank[n])

(* The topology id of a placed node, of its place in the queue or of its   *)
(* rank.                                                                   *)
LeaderInQueue(n) ==
  \E k \in 1 .. Len(queue) : queue[k].leader = n /\ tree.topo[n] = LeaderTopo(queue[k].path)

FollowerInGroup(n) ==
  LET r == tree.rank[n]
  IN  /\ r > 1 /\ SlotOf(r) >= Y /\ GroupOf(r) + 1 \in 1 .. Len(queue)
      /\ tree.topo[n] = FollowerTopo(queue[GroupOf(r) + 1].path, SlotOf(r) - Y + 1)

TopologyInForm ==
  \A n \in Node : tree.rank[n] # 0 => LeaderInQueue(n) \/ FollowerInGroup(n)

Distinct(t) == \A m, n \in Placed(t) : t.topo[m] = t.topo[n] => m = n

Form ==
  /\ LoopsInForm /\ QueueInForm /\ TopologyInForm
  /\ InForm(tree) /\ InForm(pub) /\ Distinct(pub)


(* A placed node's entries in the maps.                                    *)
LEMMA TopologyOfPlaced ==
  ASSUME tree \in Trees, NEW n \in Node, NEW p \in Node, NEW role, NEW level, NEW topo, NEW r
  PROVE  LET t == Assign(n, role, level, topo, r)
         IN  /\ t.topo = [tree.topo EXCEPT ![n] = topo]
             /\ [t EXCEPT !.child[p] = @ \cup {n}].topo = t.topo
             /\ [t EXCEPT !.foll[p] = @ \cup {n}].topo = t.topo
  BY DEF Assign, Trees

(* Node n is placed at rank idx under p, and the others stay as they are.  *)
PlacedUnder(n, p, role, level, topo) ==
  /\ n \in Node /\ p \in Node /\ n # p /\ tree.rank[n] = 0 /\ tree.rank[p] # 0
  /\ tree'.rank[n] = idx /\ tree'.role[n] = role /\ tree'.level[n] = level
  /\ tree'.topo[n] = topo /\ tree'.parent[n] = p
  /\ \A m \in Node \ {n} :
       /\ tree'.rank[m] = tree.rank[m] /\ tree'.role[m] = tree.role[m]
       /\ tree'.level[m] = tree.level[m] /\ tree'.topo[m] = tree.topo[m]
       /\ tree'.parent[m] = tree.parent[m]

LEMMA ChildIsPlaced ==
  ASSUME IInv, PlaceChild
  PROVE  LET cur == queue[qi]
         IN  PlacedUnder(filtered[idx], cur.leader, "leader", cur.depth + 1,
                         LeaderTopo(Append(cur.path, slot)))
<1>. DEFINE cur  == queue[qi]
            n    == filtered[idx]
            p    == cur.leader
            topo == LeaderTopo(Append(cur.path, slot))
            t    == Assign(n, "leader", cur.depth + 1, topo, p)
<1>1. /\ n \in Node /\ tree.rank[n] = 0 /\ p \in Node /\ tree.rank[p] # 0
      /\ cur.path \in Seq(Nat) /\ cur.depth \in Nat /\ p # n
  BY ServedLeader DEF PlaceChild, Placing
<1>2. tree \in Trees /\ idx \in Nat /\ slot \in Nat
  BY DEF IInv, TypeOK
<1>3. topo \in Topos
  BY <1>1, <1>2 DEF LeaderTopo, Topos
<1>4. tree' = [t EXCEPT !.child[p] = @ \cup {n}]
  BY DEF PlaceChild
<1>. HIDE DEF cur, n, p, topo
<1>5. Assigned(t, n, "leader", cur.depth + 1, p) /\ t.topo = [tree.topo EXCEPT ![n] = topo]
  <2>1. "leader" \in Roles /\ cur.depth + 1 \in Nat /\ p \in Node \cup {0}
    BY <1>1 DEF Roles
  <2>. QED BY <2>1, <1>1, <1>2, <1>3, AssignFacts, TopologyOfPlaced
<1>6. /\ tree'.rank = t.rank /\ tree'.parent = t.parent /\ tree'.role = t.role
      /\ tree'.level = t.level /\ tree'.topo = t.topo
  <2>1. tree'.topo = t.topo
    BY <1>1, <1>2, <1>4, TopologyOfPlaced
  <2>. HIDE DEF t
  <2>. QED BY <2>1, <1>1, <1>4, <1>5, AddChildFacts DEF Assigned
<1>7. /\ tree.rank \in [Node -> Nat] /\ tree.role \in [Node -> Roles]
      /\ tree.level \in [Node -> Nat] /\ tree.parent \in [Node -> Node \cup {0}]
      /\ tree.topo \in [Node -> Topos]
  BY <1>2 DEF Trees
<1>8. PlacedUnder(n, p, "leader", cur.depth + 1, topo)
  <2>. HIDE DEF t
  <2>. QED BY <1>1, <1>5, <1>6, <1>7 DEF PlacedUnder, Assigned
<1>. QED
  BY <1>8 DEF cur, n, p, topo

LEMMA FollowerIsPlaced ==
  ASSUME IInv, PlaceFollower
  PROVE  LET cur == queue[qi]
         IN  \E role \in {"sender", "base"} :
               PlacedUnder(filtered[idx], cur.leader, role, cur.depth, FollowerTopo(cur.path, slot))
<1>. DEFINE cur  == queue[qi]
            n    == filtered[idx]
            p    == cur.leader
            role == FollowerRole(n)
            topo == FollowerTopo(cur.path, slot)
            t    == Assign(n, role, cur.depth, topo, p)
<1>1. /\ n \in Node /\ tree.rank[n] = 0 /\ p \in Node /\ tree.rank[p] # 0
      /\ cur.path \in Seq(Nat) /\ cur.depth \in Nat /\ p # n
  BY ServedLeader DEF PlaceFollower, Placing
<1>2. tree \in Trees /\ idx \in Nat /\ slot \in Nat
  BY DEF IInv, TypeOK
<1>3. topo \in Topos /\ role \in {"sender", "base"}
  BY <1>1, <1>2 DEF FollowerTopo, Topos, FollowerRole
<1>4. tree' = [t EXCEPT !.foll[p] = @ \cup {n}]
  BY DEF PlaceFollower
<1>. HIDE DEF cur, n, p, topo, role
<1>5. Assigned(t, n, role, cur.depth, p) /\ t.topo = [tree.topo EXCEPT ![n] = topo]
  <2>1. role \in Roles /\ p \in Node \cup {0}
    BY <1>1, <1>3 DEF Roles
  <2>. QED BY <2>1, <1>1, <1>2, <1>3, AssignFacts, TopologyOfPlaced
<1>6. /\ tree'.rank = t.rank /\ tree'.parent = t.parent /\ tree'.role = t.role
      /\ tree'.level = t.level /\ tree'.topo = t.topo
  <2>1. tree'.topo = t.topo
    BY <1>1, <1>2, <1>4, TopologyOfPlaced
  <2>. HIDE DEF t
  <2>. QED BY <2>1, <1>1, <1>4, <1>5, AddFollowerFacts DEF Assigned
<1>7. /\ tree.rank \in [Node -> Nat] /\ tree.role \in [Node -> Roles]
      /\ tree.level \in [Node -> Nat] /\ tree.parent \in [Node -> Node \cup {0}]
      /\ tree.topo \in [Node -> Topos]
  BY <1>2 DEF Trees
<1>8. PlacedUnder(n, p, role, cur.depth, topo)
  <2>. HIDE DEF t
  <2>. QED BY <1>1, <1>5, <1>6, <1>7 DEF PlacedUnder, Assigned
<1>. QED
  BY <1>3, <1>8 DEF cur, n, p, topo

(* A node placed in form leaves the maps in form.                          *)
LEMMA PlacedInForm ==
  ASSUME IInv, InForm(tree), NEW n, NEW p, NEW role, NEW level, NEW topo,
         PlacedUnder(n, p, role, level, topo),
         level = LevelAtRank(idx), (role = "leader") = LeadsAtRank(idx),
         tree.rank[p] = ParentRank(idx)
  PROVE  InForm(tree)'
<1>1. ASSUME NEW m \in Node \ {n}, tree.rank[m] > 1
      PROVE  tree.parent[m] \in Node \ {n}
  <2>1. tree.parent[m] \in Node /\ tree.rank[tree.parent[m]] # 0
    BY <1>1 DEF IInv, AlwaysATree, IsTree, HangsOn
  <2>. QED BY <2>1 DEF PlacedUnder
<1>2. ASSUME NEW m \in Node \ {n}, tree'.rank[m] # 0
      PROVE  /\ tree'.level[m] = LevelAtRank(tree'.rank[m])
             /\ (tree'.role[m] = "leader") = LeadsAtRank(tree'.rank[m])
             /\ tree'.rank[m] > 1 => tree'.rank[tree'.parent[m]] = ParentRank(tree'.rank[m])
  <2>1. /\ tree'.rank[m] = tree.rank[m] /\ tree'.role[m] = tree.role[m]
        /\ tree'.level[m] = tree.level[m] /\ tree'.parent[m] = tree.parent[m]
    BY <1>2 DEF PlacedUnder
  <2>2. tree.rank[m] > 1 => tree'.rank[tree.parent[m]] = tree.rank[tree.parent[m]]
    BY <1>1 DEF PlacedUnder
  <2>. QED BY <1>2, <2>1, <2>2 DEF InForm
<1>3. /\ tree'.level[n] = LevelAtRank(tree'.rank[n])
      /\ (tree'.role[n] = "leader") = LeadsAtRank(tree'.rank[n])
      /\ tree'.rank[tree'.parent[n]] = ParentRank(tree'.rank[n])
  BY DEF PlacedUnder
<1>. QED BY <1>2, <1>3 DEF InForm

LEMMA DivisionIsInjective ==
  ASSUME NEW a \in Nat, NEW b \in Nat, NEW w \in Nat \ {0}, a \div w = b \div w, a % w = b % w
  PROVE  a = b
BY SMT

LEMMA RemaindersAreSmall ==
  ASSUME NEW a \in Nat, NEW w \in Nat \ {0}
  PROVE  a \div w \in Nat /\ a % w \in 0 .. w - 1
BY SMT

LEMMA PathsExtend ==
  ASSUME NEW x \in Seq(Nat), NEW y \in Seq(Nat), NEW u \in Nat, NEW v \in Nat
  PROVE  /\ Append(x, u) # <<>>
         /\ Append(x, u) = Append(y, v) => x = y /\ u = v
<1>1. Append(x, u) # <<>>
  BY AppendProperties, SMTT(30)
<1>2. Append(x, u) = Append(y, v) => x = y /\ u = v
  BY AppendInjective
<1>. QED BY <1>1, <1>2

(* The paths of the queue differ, as none is the path of the next place.   *)
LEMMA PathsStayDifferent ==
  ASSUME QueueInForm, queue \in Seq(QueueItem),
         NEW c \in Nat, NEW t \in 0 .. Y - 1, Len(queue) = 1 + c * Y + t, c + 1 \in 1 .. Len(queue)
  PROVE  \A k \in 1 .. Len(queue) : queue[k].path # Append(queue[c + 1].path, t + 1)
<1>. SUFFICES ASSUME NEW k \in 1 .. Len(queue),
                     queue[k].path = Append(queue[c + 1].path, t + 1)
              PROVE  FALSE
  OBVIOUS
<1>1. Y \in Nat \ {0} /\ c * Y \in Nat /\ Len(queue) \in Nat
  BY CapacityAssumption, SMT
<1>2. \A m \in 1 .. Len(queue) : queue[m].path \in Seq(Nat)
  <2>1. \A m \in 1 .. Len(queue) : queue[m] \in QueueItem
    OBVIOUS
  <2>. QED BY <2>1 DEF QueueItem
<1>3. k # 1
  <2>1. SUFFICES ASSUME k = 1
                 PROVE  FALSE
    OBVIOUS
  <2>2. queue[1].path = <<>>
    BY <2>1 DEF QueueInForm
  <2>3. Append(queue[c + 1].path, t + 1) # <<>>
    <3>1. queue[c + 1].path \in Seq(Nat) /\ t + 1 \in Nat
      BY <1>1, <1>2
    <3>. QED BY <3>1, PathsExtend
  <2>. QED BY <2>1, <2>2, <2>3
<1>4. PICK a, b : a = (k - 2) \div Y /\ b = (k - 2) % Y
  OBVIOUS
<1>5. k - 2 \in Nat /\ a \in Nat /\ b \in 0 .. Y - 1
  <2>1. k - 2 \in Nat
    BY <1>3
  <2>. QED BY <2>1, <1>1, <1>4, RemaindersAreSmall
<1>6. a + 1 \in 1 .. Len(queue) /\ queue[k].path = Append(queue[a + 1].path, b + 1)
  <2>1. k \in 2 .. Len(queue)
    BY <1>3
  <2>. QED BY <2>1, <1>4 DEF QueueInForm, TakerOf, TakenAt
<1>7. queue[a + 1].path = queue[c + 1].path /\ b + 1 = t + 1
  <2>1. PICK x, y, u, v : /\ x = queue[a + 1].path /\ y = queue[c + 1].path
                          /\ u = b + 1 /\ v = t + 1
    OBVIOUS
  <2>2. x \in Seq(Nat) /\ y \in Seq(Nat) /\ u \in Nat /\ v \in Nat /\ Append(x, u) = Append(y, v)
    <3>1. x \in Seq(Nat) /\ y \in Seq(Nat)
      BY <1>2, <1>6, <2>1
    <3>2. u \in Nat /\ v \in Nat
      BY <1>1, <1>5, <2>1
    <3>3. queue[k].path = Append(x, u)
      BY <1>6, <2>1
    <3>. QED BY <3>1, <3>2, <3>3, <2>1
  <2>3. x = y /\ u = v
    BY <2>2, PathsExtend
  <2>. QED BY <2>1, <2>3
<1>8. a = c /\ b = t
  <2>1. a + 1 = c + 1
    BY <1>6, <1>7 DEF QueueInForm
  <2>. QED BY <2>1, <1>5, <1>7
<1>9. k - 2 = c * Y + t
  <2>1. c * Y + t \in Nat /\ (c * Y + t) \div Y = c /\ (c * Y + t) % Y = t
    <3>1. (c * Y + t) \div Y = c /\ (c * Y + t) % Y = t
      BY <1>1, DivisionIs
    <3>. QED BY <1>1, <3>1
  <2>. QED BY <2>1, <1>1, <1>4, <1>5, <1>8, DivisionIsInjective
<1>. QED BY <1>1, <1>5, <1>9

LEMMA ChildKeepsForm ==
  ASSUME IInv, Form, PlaceChild
  PROVE  Form'
<1>0. PICK n, p, path, item :
        /\ n = filtered[idx] /\ p = queue[qi].leader /\ path = Append(queue[qi].path, slot)
        /\ item = [leader |-> n, path |-> path, depth |-> queue[qi].depth + 1]
  OBVIOUS
<1>1. /\ pc = "children" /\ slot <= Y /\ idx <= Len(filtered)
      /\ idx' = idx + 1 /\ slot' = slot + 1 /\ queue' = Append(queue, item)
      /\ pc' = pc /\ filtered' = filtered /\ qi' = qi /\ pub' = pub
  BY <1>0 DEF PlaceChild
<1>2. /\ queue \in Seq(QueueItem) /\ slot \in Nat \ {0} /\ qi \in Nat \ {0} /\ idx \in Nat \ {0}
      /\ qi \in 1 .. Len(queue) /\ Len(queue) \in Nat /\ Len(filtered) \in Nat
      /\ \A k \in 1 .. Len(queue) : queue[k].leader \in Node /\ tree.rank[queue[k].leader] # 0
  <2>1. /\ queue \in Seq(QueueItem) /\ slot \in Nat \ {0} /\ qi \in Nat \ {0} /\ idx \in Nat \ {0}
        /\ Len(filtered) \in Nat /\ qi <= Len(queue)
        /\ \A k \in 1 .. Len(queue) : tree.rank[queue[k].leader] # 0
    BY <1>1 DEF IInv, TypeOK, QueueServed, Placing
  <2>2. ASSUME NEW k \in 1 .. Len(queue)
        PROVE  queue[k].leader \in Node
    <3>1. queue[k] \in QueueItem
      BY <2>1
    <3>. QED BY <3>1 DEF QueueItem
  <2>3. qi \in 1 .. Len(queue) /\ Len(queue) \in Nat
    BY <2>1
  <2>. QED BY <2>1, <2>2, <2>3
<1>3. PICK c \in Nat, t \in Nat : c = qi - 1 /\ t = slot - 1
  BY <1>2
<1>4. /\ Y \in Nat \ {0} /\ N \in Nat \ {0} /\ t < Y /\ t \in 0 .. Y - 1 /\ t \in 0 .. Y + N - 1
      /\ qi = c + 1 /\ slot = t + 1
  <2>1. Y \in Nat \ {0} /\ N \in Nat \ {0}
    BY CapacityAssumption
  <2>2. qi = c + 1 /\ slot = t + 1 /\ t < Y
    BY <1>1, <1>2, <1>3, <2>1
  <2>. QED BY <1>3, <2>1, <2>2
<1>5. PICK x, y : x = c * (Y + N) /\ y = c * Y
  OBVIOUS
<1>6. /\ x \in Nat /\ y \in Nat /\ GroupOf(2 + x + t) = c /\ SlotOf(2 + x + t) = t
      /\ (y + t) \div Y = c /\ (y + t) % Y = t /\ QueueRank(1 + y + t) = 2 + x + t
  BY <1>4, <1>5, PlacesOfGroups
<1>7. idx = 2 + x + t /\ Len(queue) = 1 + y + t
  BY <1>1, <1>3, <1>5 DEF Form, LoopsInForm, Placing
<1>8. PlacedUnder(n, p, "leader", queue[qi].depth + 1, LeaderTopo(path))
  BY <1>0, ChildIsPlaced
<1>9. /\ queue' = Append(queue, item) /\ item.leader = n /\ item.path = path
      /\ item.depth = queue[qi].depth + 1
  BY <1>0, <1>1
<1>10. /\ Len(queue') = Len(queue) + 1 /\ queue'[Len(queue) + 1] = item
       /\ \A k \in 1 .. Len(queue) : queue'[k] = queue[k]
  BY <1>2, <1>9
<1>11. \A k \in 1 .. Len(queue) :
         /\ queue[k].leader \in Node \ {n}
         /\ tree'.rank[queue[k].leader] = tree.rank[queue[k].leader]
  BY <1>2, <1>8 DEF PlacedUnder
<1>12. LoopsInForm'
  <2>1. idx' = 2 + x + slot /\ Len(queue') = 1 + y + slot /\ slot' - 1 = slot
    BY <1>1, <1>2, <1>4, <1>6, <1>7, <1>10
  <2>. QED BY <1>1, <1>3, <1>5, <2>1 DEF LoopsInForm
<1>13. /\ QueueLevel(Len(queue))[Len(queue)] = queue[qi].depth + 1
       /\ QueueRank(Len(queue)) = idx
  <2>1. Len(queue) \in Nat \ {0} /\ Len(queue) - 1 = y + t
    BY <1>4, <1>6, <1>7
  <2>2. QueueLevel(Len(queue))[Len(queue)] = QueueLevel(c)[c] + 1
    BY <1>6, <2>1, QueueLevelIs
  <2>3. queue[qi].depth = QueueLevel(c)[c]
    BY <1>2, <1>3 DEF Form, QueueInForm
  <2>. QED BY <1>6, <1>7, <2>2, <2>3
<1>14. TakerOf(Len(queue) + 1) = qi /\ TakenAt(Len(queue) + 1) = slot
  <2>1. (Len(queue) + 1) - 2 = y + t
    BY <1>4, <1>6, <1>7
  <2>. QED BY <1>4, <1>6, <2>1 DEF TakerOf, TakenAt
<1>15. QueueInForm'
  <2>1. ASSUME NEW k \in 1 .. Len(queue')
        PROVE  /\ tree'.rank[queue'[k].leader] = QueueRank(k - 1)
               /\ queue'[k].depth = QueueLevel(k - 1)[k - 1]
    <3>1. CASE k \in 1 .. Len(queue)
      BY <1>10, <1>11, <3>1 DEF Form, QueueInForm
    <3>2. CASE k = Len(queue) + 1
      <4>1. k - 1 = Len(queue)
        BY <1>2, <3>2
      <4>. QED BY <1>8, <1>9, <1>10, <1>13, <3>2, <4>1 DEF PlacedUnder
    <3>3. k \in 1 .. Len(queue) \/ k = Len(queue) + 1
      BY <1>2, <1>10
    <3>. QED BY <3>1, <3>2, <3>3
  <2>2. queue'[1].path = <<>>
    <3>1. 1 \in 1 .. Len(queue) /\ queue # <<>>
      BY <1>2
    <3>. QED BY <1>10, <3>1 DEF Form, QueueInForm
  <2>3. ASSUME NEW k \in 2 .. Len(queue')
        PROVE  /\ TakerOf(k) \in 1 .. Len(queue')
               /\ queue'[k].path = Append(queue'[TakerOf(k)].path, TakenAt(k))
    <3>1. CASE k \in 2 .. Len(queue)
      <4>1. /\ TakerOf(k) \in 1 .. Len(queue) /\ k \in 1 .. Len(queue)
            /\ queue[k].path = Append(queue[TakerOf(k)].path, TakenAt(k))
        BY <3>1 DEF Form, QueueInForm
      <4>2. TakerOf(k) \in 1 .. Len(queue')
        BY <1>2, <1>10, <4>1
      <4>. QED BY <1>10, <4>1, <4>2
    <3>2. CASE k = Len(queue) + 1
      <4>1. qi \in 1 .. Len(queue') /\ queue'[qi] = queue[qi]
        BY <1>2, <1>10
      <4>. QED BY <1>9, <1>10, <1>14, <3>2, <4>1, <1>0
    <3>3. k \in 2 .. Len(queue) \/ k = Len(queue) + 1
      BY <1>2, <1>10
    <3>. QED BY <3>1, <3>2, <3>3
  <2>4. ASSUME NEW k \in 1 .. Len(queue)
        PROVE  queue[k].path # path
    <3>1. c + 1 \in 1 .. Len(queue)
      BY <1>2, <1>4
    <3>. QED BY <1>2, <1>4, <1>5, <1>7, <3>1, <1>0, PathsStayDifferent DEF Form
  <2>5. ASSUME NEW k \in 1 .. Len(queue'), NEW l \in 1 .. Len(queue'),
               queue'[k].path = queue'[l].path
        PROVE  k = l
    <3>1. k \in 1 .. Len(queue) \/ k = Len(queue) + 1
      BY <1>2, <1>10
    <3>2. l \in 1 .. Len(queue) \/ l = Len(queue) + 1
      BY <1>2, <1>10
    <3>. QED BY <1>9, <1>10, <2>4, <2>5, <3>1, <3>2 DEF Form, QueueInForm
  <2>. QED BY <2>1, <2>2, <2>3, <2>5 DEF QueueInForm
<1>16. InForm(tree)'
  <2>1. GroupOf(idx) = c /\ SlotOf(idx) < Y /\ idx # 1
    BY <1>4, <1>6, <1>7
  <2>2. LeadsAtRank(idx) = TRUE
    BY <2>1 DEF LeadsAtRank
  <2>3. queue[qi].depth = QueueLevel(c)[c] /\ tree.rank[p] = QueueRank(c)
    BY <1>0, <1>2, <1>3 DEF Form, QueueInForm
  <2>4. queue[qi].depth + 1 = LevelAtRank(idx)
    BY <2>1, <2>2, <2>3 DEF LevelAtRank
  <2>5. tree.rank[p] = ParentRank(idx)
    BY <2>1, <2>3 DEF ParentRank
  <2>. QED BY <1>8, <2>2, <2>4, <2>5, PlacedInForm DEF Form
<1>17. TopologyInForm'
  <2>1. ASSUME NEW m \in Node, m # n, tree'.rank[m] # 0
        PROVE  LeaderInQueue(m)' \/ FollowerInGroup(m)'
    <3>1. tree'.rank[m] = tree.rank[m] /\ tree'.topo[m] = tree.topo[m]
      BY <1>8, <2>1 DEF PlacedUnder
    <3>2. LeaderInQueue(m) \/ FollowerInGroup(m)
      BY <2>1, <3>1 DEF Form, TopologyInForm
    <3>3. \A k \in 1 .. Len(queue) : k \in 1 .. Len(queue') /\ queue'[k] = queue[k]
      BY <1>2, <1>10
    <3>4. LeaderInQueue(m) => LeaderInQueue(m)'
      BY <3>1, <3>3 DEF LeaderInQueue
    <3>5. FollowerInGroup(m) => FollowerInGroup(m)'
      BY <3>1, <3>3 DEF FollowerInGroup
    <3>. QED BY <3>2, <3>4, <3>5
  <2>2. LeaderInQueue(n)'
    <3>1. Len(queue) + 1 \in 1 .. Len(queue')
      BY <1>2, <1>10
    <3>2. tree'.topo[n] = LeaderTopo(path)
      BY <1>8 DEF PlacedUnder
    <3>3. PICK k \in 1 .. Len(queue') : queue'[k] = item
      BY <1>10, <3>1
    <3>. QED BY <1>9, <3>2, <3>3 DEF LeaderInQueue
  <2>. QED BY <2>1, <2>2 DEF TopologyInForm
<1>18. InForm(pub)' /\ Distinct(pub)'
  BY <1>1 DEF Form, InForm, Distinct, Placed
<1>. QED BY <1>12, <1>15, <1>16, <1>17, <1>18 DEF Form

LEMMA FollowerKeepsForm ==
  ASSUME IInv, Form, PlaceFollower
  PROVE  Form'
<1>0. PICK n, p, c, t, path :
        /\ n = filtered[idx] /\ p = queue[qi].leader /\ path = queue[qi].path
        /\ c = qi - 1 /\ t = Y + slot - 1
  OBVIOUS
<1>1. /\ pc = "followers" /\ slot <= N /\ idx <= Len(filtered)
      /\ idx' = idx + 1 /\ slot' = slot + 1 /\ queue' = queue
      /\ pc' = pc /\ filtered' = filtered /\ qi' = qi /\ pub' = pub
  BY DEF PlaceFollower
<1>2. /\ queue \in Seq(QueueItem) /\ slot \in Nat \ {0} /\ qi \in Nat \ {0} /\ idx \in Nat \ {0}
      /\ qi \in 1 .. Len(queue) /\ Len(queue) \in Nat /\ Len(filtered) \in Nat
      /\ \A k \in 1 .. Len(queue) : queue[k].leader \in Node /\ tree.rank[queue[k].leader] # 0
  <2>1. /\ queue \in Seq(QueueItem) /\ slot \in Nat \ {0} /\ qi \in Nat \ {0} /\ idx \in Nat \ {0}
        /\ Len(filtered) \in Nat /\ qi <= Len(queue)
        /\ \A k \in 1 .. Len(queue) : tree.rank[queue[k].leader] # 0
    BY <1>1 DEF IInv, TypeOK, QueueServed, Placing
  <2>2. ASSUME NEW k \in 1 .. Len(queue)
        PROVE  queue[k].leader \in Node
    <3>1. queue[k] \in QueueItem
      BY <2>1
    <3>. QED BY <3>1 DEF QueueItem
  <2>3. qi \in 1 .. Len(queue) /\ Len(queue) \in Nat
    BY <2>1
  <2>. QED BY <2>1, <2>2, <2>3
<1>3. Y \in Nat \ {0} /\ N \in Nat \ {0}
  BY CapacityAssumption
<1>4. /\ c \in Nat /\ t \in 0 .. Y + N - 1 /\ t >= Y /\ qi = c + 1 /\ slot = t - Y + 1
  BY <1>0, <1>1, <1>2, <1>3
<1>5. PICK x : x = c * (Y + N)
  OBVIOUS
<1>6. x \in Nat /\ GroupOf(2 + x + t) = c /\ SlotOf(2 + x + t) = t
  BY <1>4, <1>5, PlacesOfGroups
<1>7. idx = 2 + x + t /\ Len(queue) = 1 + qi * Y
  BY <1>0, <1>1, <1>5 DEF Form, LoopsInForm, Placing
<1>8. PICK role \in {"sender", "base"} :
        PlacedUnder(n, p, role, queue[qi].depth, FollowerTopo(path, slot))
  BY <1>0, FollowerIsPlaced
<1>9. \A k \in 1 .. Len(queue) :
        queue[k].leader \in Node \ {n} /\ tree'.rank[queue[k].leader] = tree.rank[queue[k].leader]
  BY <1>2, <1>8 DEF PlacedUnder
<1>10. LoopsInForm'
  <2>1. idx' = 2 + x + (Y + slot' - 1)
    BY <1>0, <1>1, <1>2, <1>3, <1>6, <1>7
  <2>. QED BY <1>0, <1>1, <1>5, <1>7, <2>1 DEF LoopsInForm
<1>11. QueueInForm'
  BY <1>1, <1>9 DEF Form, QueueInForm, TakerOf, TakenAt
<1>12. InForm(tree)'
  <2>1. GroupOf(idx) = c /\ SlotOf(idx) = t /\ idx # 1 /\ ~ (t < Y)
    BY <1>3, <1>4, <1>6, <1>7
  <2>2. LeadsAtRank(idx) = FALSE
    BY <2>1 DEF LeadsAtRank
  <2>3. queue[qi].depth = QueueLevel(c)[c] /\ tree.rank[p] = QueueRank(c)
    BY <1>0, <1>2 DEF Form, QueueInForm
  <2>4. queue[qi].depth = LevelAtRank(idx)
    <3>1. queue[qi] \in QueueItem
      BY <1>2
    <3>2. queue[qi].depth + 0 = queue[qi].depth
      BY <3>1 DEF QueueItem
    <3>. QED BY <2>1, <2>2, <2>3, <3>2 DEF LevelAtRank
  <2>5. tree.rank[p] = ParentRank(idx)
    BY <2>1, <2>3 DEF ParentRank
  <2>6. (role = "leader") = LeadsAtRank(idx)
    BY <1>8, <2>2
  <2>. QED BY <1>8, <2>4, <2>5, <2>6, PlacedInForm DEF Form
<1>13. TopologyInForm'
  <2>1. ASSUME NEW m \in Node, m # n, tree'.rank[m] # 0
        PROVE  LeaderInQueue(m)' \/ FollowerInGroup(m)'
    <3>1. tree'.rank[m] = tree.rank[m] /\ tree'.topo[m] = tree.topo[m]
      BY <1>8, <2>1 DEF PlacedUnder
    <3>2. LeaderInQueue(m) \/ FollowerInGroup(m)
      BY <2>1, <3>1 DEF Form, TopologyInForm
    <3>. QED BY <1>1, <3>1, <3>2 DEF LeaderInQueue, FollowerInGroup
  <2>2. FollowerInGroup(n)'
    <3>1. tree'.rank[n] = idx /\ tree'.topo[n] = FollowerTopo(path, slot)
      BY <1>8 DEF PlacedUnder
    <3>2. idx > 1 /\ GroupOf(idx) + 1 = qi /\ SlotOf(idx) >= Y /\ SlotOf(idx) - Y + 1 = slot
      BY <1>3, <1>4, <1>6, <1>7
    <3>. QED BY <1>0, <1>1, <1>2, <3>1, <3>2 DEF FollowerInGroup
  <2>. QED BY <2>1, <2>2 DEF TopologyInForm
<1>14. InForm(pub)' /\ Distinct(pub)'
  BY <1>1 DEF Form, InForm, Distinct, Placed
<1>. QED BY <1>10, <1>11, <1>12, <1>13, <1>14 DEF Form

(* The steps that place nobody.                                            *)
LEMMA OthersKeepForm ==
  ASSUME Form, LoopsInForm', UNCHANGED <<queue, tree, pub>>
  PROVE  Form'
<1>1. QueueInForm'
  BY DEF Form, QueueInForm, TakerOf, TakenAt
<1>2. TopologyInForm'
  BY DEF Form, TopologyInForm, LeaderInQueue, FollowerInGroup
<1>3. InForm(tree)' /\ InForm(pub)' /\ Distinct(pub)'
  BY DEF Form, InForm, Distinct, Placed
<1>. QED BY <1>1, <1>2, <1>3 DEF Form

LEMMA NextMultiple ==
  ASSUME NEW c \in Nat, NEW w \in Nat
  PROVE  c * w \in Nat /\ (c + 1) * w = c * w + w
BY SMT

LEMMA EndChildrenKeepsForm ==
  ASSUME IInv, Form, EndChildren
  PROVE  Form'
<1>1. /\ pc = "children" /\ ~ (slot <= Y /\ idx <= Len(filtered)) /\ pc' = "followers" /\ slot' = 1
      /\ UNCHANGED <<filtered, idx, queue, qi, tree, pub>>
  BY DEF EndChildren
<1>2. qi \in Nat \ {0} /\ slot \in Nat \ {0} /\ slot <= Y + 1 /\ Y \in Nat /\ N \in Nat
  BY <1>1, CapacityAssumption DEF IInv, TypeOK, ListsWithinSlots
<1>3. LoopsInForm'
  <2>1. SUFFICES ASSUME idx <= Len(filtered)
                 PROVE  /\ idx = 2 + (qi - 1) * (Y + N) + (Y + 1 - 1)
                        /\ Len(queue) = 1 + qi * Y
    BY <1>1 DEF LoopsInForm
  <2>2. slot = Y + 1
    BY <1>1, <1>2, <2>1
  <2>3. idx = 2 + (qi - 1) * (Y + N) + (slot - 1) /\ Len(queue) = 1 + (qi - 1) * Y + (slot - 1)
    BY <1>1, <2>1 DEF Form, LoopsInForm, Placing
  <2>4. (qi - 1) * Y \in Nat /\ qi * Y = (qi - 1) * Y + Y
    <3>1. qi - 1 \in Nat /\ (qi - 1) + 1 = qi
      BY <1>2
    <3>. QED BY <1>2, <3>1, NextMultiple
  <2>. QED BY <1>2, <2>2, <2>3, <2>4
<1>. QED BY <1>1, <1>3, OthersKeepForm

LEMMA EndFollowersKeepsForm ==
  ASSUME IInv, Form, EndFollowers
  PROVE  Form'
<1>1. /\ pc = "followers" /\ ~ (slot <= N /\ idx <= Len(filtered))
      /\ qi' = qi + 1 /\ slot' = 1 /\ pc' \in {"children", "publish"}
      /\ UNCHANGED <<filtered, idx, queue, tree, pub>>
  BY DEF EndFollowers
<1>2. qi \in Nat \ {0} /\ slot \in Nat \ {0} /\ slot <= N + 1 /\ Y \in Nat /\ N \in Nat
  BY <1>1, CapacityAssumption DEF IInv, TypeOK, ListsWithinSlots
<1>3. LoopsInForm'
  <2>1. SUFFICES ASSUME idx <= Len(filtered), pc' = "children"
                 PROVE  /\ idx = 2 + ((qi + 1) - 1) * (Y + N) + (1 - 1)
                        /\ Len(queue) = 1 + ((qi + 1) - 1) * Y + (1 - 1)
    BY <1>1 DEF LoopsInForm, Placing
  <2>2. slot = N + 1
    BY <1>1, <1>2, <2>1
  <2>3. idx = 2 + (qi - 1) * (Y + N) + (Y + slot - 1) /\ Len(queue) = 1 + qi * Y
    BY <1>1, <2>1 DEF Form, LoopsInForm, Placing
  <2>4. (qi - 1) * (Y + N) \in Nat /\ qi * (Y + N) = (qi - 1) * (Y + N) + (Y + N)
    <3>1. qi - 1 \in Nat /\ (qi - 1) + 1 = qi /\ Y + N \in Nat
      BY <1>2
    <3>. QED BY <3>1, NextMultiple
  <2>5. qi * Y \in Nat /\ (qi + 1) - 1 = qi
    BY <1>2, NextMultiple
  <2>. QED BY <1>2, <2>2, <2>3, <2>4, <2>5
<1>. QED BY <1>1, <1>3, OthersKeepForm

(* No nodes, no queue: what Init and Publish leave.                        *)
LEMMA EmptyInForm ==
  /\ InForm(EmptyTree) /\ Distinct(EmptyTree)
  /\ queue = <<>> /\ tree = EmptyTree => QueueInForm /\ TopologyInForm
<1>1. InForm(EmptyTree) /\ Distinct(EmptyTree)
  BY EmptyTreeFacts DEF InForm, Distinct, Placed
<1>2. ASSUME queue = <<>>, tree = EmptyTree
      PROVE  QueueInForm /\ TopologyInForm
  BY <1>2, EmptyTreeFacts DEF QueueInForm, TopologyInForm
<1>. QED BY <1>1, <1>2

(* Two topology ids of a tree in form differ: the paths of the queue do,   *)
(* and the ranks of a leader's followers.                                  *)
LEMMA TreeIsDistinct ==
  ASSUME IInv, Form
  PROVE  Distinct(tree)
<1>. SUFFICES ASSUME NEW m \in Node, NEW n \in Node, tree.rank[m] # 0, tree.rank[n] # 0,
                     tree.topo[m] = tree.topo[n]
              PROVE  m = n
  BY DEF Distinct, Placed
<1>1. ASSUME NEW x \in Node, FollowerInGroup(x)
      PROVE  /\ tree.topo[x].b # 0
             /\ GroupOf(tree.rank[x]) + 1 \in 1 .. Len(queue)
             /\ tree.topo[x].path = queue[GroupOf(tree.rank[x]) + 1].path
             /\ tree.topo[x].b = SlotOf(tree.rank[x]) - Y + 1
             /\ SlotOf(tree.rank[x]) \in Nat /\ GroupOf(tree.rank[x]) \in Nat
             /\ tree.rank[x] - 2 \in Nat
  <2>1. tree.rank[x] - 2 \in Nat /\ Y + N \in Nat \ {0} /\ Y \in Nat
    <3>1. tree.rank[x] \in Nat
      BY DEF IInv, TypeOK, Trees
    <3>. QED BY <1>1, <3>1, CapacityAssumption DEF FollowerInGroup
  <2>2. SlotOf(tree.rank[x]) \in Nat /\ GroupOf(tree.rank[x]) \in Nat
    <3>1. PICK a, w : a = tree.rank[x] - 2 /\ w = Y + N
      OBVIOUS
    <3>2. a \div w \in Nat /\ a % w \in 0 .. w - 1
      BY <2>1, <3>1, RemaindersAreSmall
    <3>. QED BY <2>1, <3>1, <3>2 DEF SlotOf, GroupOf
  <2>. QED BY <1>1, <2>1, <2>2 DEF FollowerInGroup, FollowerTopo
<1>2. (LeaderInQueue(m) \/ FollowerInGroup(m)) /\ (LeaderInQueue(n) \/ FollowerInGroup(n))
  BY DEF Form, TopologyInForm
<1>3. CASE LeaderInQueue(m) /\ LeaderInQueue(n)
  <2>1. PICK j \in 1 .. Len(queue) : queue[j].leader = m /\ tree.topo[m] = LeaderTopo(queue[j].path)
    BY <1>3 DEF LeaderInQueue
  <2>2. PICK k \in 1 .. Len(queue) : queue[k].leader = n /\ tree.topo[n] = LeaderTopo(queue[k].path)
    BY <1>3 DEF LeaderInQueue
  <2>3. queue[j].path = queue[k].path
    <3>1. tree.topo[m].path = queue[j].path
      BY <2>1 DEF LeaderTopo
    <3>2. tree.topo[n].path = queue[k].path
      BY <2>2 DEF LeaderTopo
    <3>. QED BY <3>1, <3>2
  <2>4. j = k
    BY <2>3 DEF Form, QueueInForm
  <2>. QED BY <2>1, <2>2, <2>4
<1>4. CASE FollowerInGroup(m) /\ FollowerInGroup(n)
  <2>1. GroupOf(tree.rank[m]) + 1 = GroupOf(tree.rank[n]) + 1
    <3>1. PICK j, k \in 1 .. Len(queue) :
            /\ j = GroupOf(tree.rank[m]) + 1 /\ tree.topo[m].path = queue[j].path
            /\ k = GroupOf(tree.rank[n]) + 1 /\ tree.topo[n].path = queue[k].path
      BY <1>1, <1>4
    <3>2. j = k
      BY <3>1 DEF Form, QueueInForm
    <3>. QED BY <3>1, <3>2
  <2>2. GroupOf(tree.rank[m]) = GroupOf(tree.rank[n]) /\ SlotOf(tree.rank[m]) = SlotOf(tree.rank[n])
    <3>1. PICK a, b, g, h \in Nat :
            /\ a = SlotOf(tree.rank[m]) /\ b = SlotOf(tree.rank[n])
            /\ g = GroupOf(tree.rank[m]) /\ h = GroupOf(tree.rank[n])
      BY <1>1, <1>4
    <3>2. a - Y + 1 = b - Y + 1
      BY <1>1, <1>4, <3>1
    <3>. QED BY <2>1, <3>1, <3>2, CapacityAssumption
  <2>3. tree.rank[m] - 2 = tree.rank[n] - 2
    <3>1. Y + N \in Nat \ {0}
      BY CapacityAssumption
    <3>. QED BY <1>1, <1>4, <2>2, <3>1, DivisionIsInjective DEF GroupOf, SlotOf
  <2>4. tree.rank[m] = tree.rank[n]
    <3>1. tree.rank[m] \in Nat /\ tree.rank[n] \in Nat
      BY DEF IInv, TypeOK, Trees
    <3>. QED BY <2>3, <3>1
  <2>. QED BY <2>4 DEF IInv, PlacedPrefix
<1>5. ASSUME NEW x \in Node, NEW y \in Node, LeaderInQueue(x), FollowerInGroup(y)
      PROVE  tree.topo[x] # tree.topo[y]
  <2>1. tree.topo[x].b = 0
    BY <1>5 DEF LeaderInQueue, LeaderTopo
  <2>2. tree.topo[y].b # 0
    BY <1>1, <1>5
  <2>. QED BY <2>1, <2>2
<1>. QED BY <1>2, <1>3, <1>4, <1>5

LEMMA BeginKeepsForm ==
  ASSUME Form, Begin
  PROVE  Form'
<1>1. pc' = "root" /\ UNCHANGED <<queue, tree, pub>>
  BY DEF Begin
<1>2. LoopsInForm'
  BY <1>1 DEF LoopsInForm, Placing
<1>. QED BY <1>1, <1>2, OthersKeepForm

LEMMA PublishKeepsForm ==
  ASSUME IInv, Form, Publish
  PROVE  Form'
<1>1. pc' = "idle" /\ queue' = <<>> /\ tree' = EmptyTree /\ pub' = tree
  BY DEF Publish
<1>2. LoopsInForm'
  BY <1>1 DEF LoopsInForm, Placing
<1>3. QueueInForm' /\ TopologyInForm' /\ InForm(tree)'
  <2>1. QueueInForm'
    BY <1>1 DEF QueueInForm
  <2>2. TopologyInForm'
    BY <1>1, EmptyTreeFacts DEF TopologyInForm
  <2>3. InForm(tree)'
    BY <1>1, EmptyTreeFacts DEF InForm
  <2>. QED BY <2>1, <2>2, <2>3
<1>4. InForm(pub)' /\ Distinct(pub)'
  BY <1>1, TreeIsDistinct DEF Form, InForm, Distinct, Placed
<1>. QED BY <1>2, <1>3, <1>4 DEF Form

LEMMA RootKeepsForm ==
  ASSUME IInv, Form, PlaceRoot
  PROVE  Form'
<1>1. PICK root : root = filtered[1]
  OBVIOUS
<1>2. /\ tree = EmptyTree /\ idx = 1 /\ root \in Node
      /\ tree \in Trees
  BY <1>1, EmptyTreeFacts DEF PlaceRoot, FreshStart, FilteredOnce, IInv, TypeOK
<1>3. tree' = Assign(root, "leader", 0, RootTopo, 0)
  BY <1>1, <1>2 DEF PlaceRoot
<1>4. RootTopo \in Topos /\ RootTopo = LeaderTopo(<<>>)
  BY TopoTypes DEF RootTopo, LeaderTopo, Topos
<1>5. /\ tree'.rank = [tree.rank EXCEPT ![root] = 1]
      /\ tree'.role = [tree.role EXCEPT ![root] = "leader"]
      /\ tree'.level = [tree.level EXCEPT ![root] = 0]
      /\ tree'.topo = [tree.topo EXCEPT ![root] = RootTopo]
  <2>1. "leader" \in Roles /\ 0 \in Node \cup {0} /\ idx \in Nat
    BY <1>2 DEF Roles
  <2>2. Assigned(tree', root, "leader", 0, 0)
    BY <1>2, <1>3, <1>4, <2>1, AssignFacts
  <2>3. tree'.topo = [tree.topo EXCEPT ![root] = RootTopo]
    BY <1>2, <1>3, TopologyOfPlaced
  <2>. QED BY <1>2, <2>2, <2>3 DEF Assigned
<1>6. /\ tree'.rank[root] = 1 /\ tree'.role[root] = "leader" /\ tree'.level[root] = 0
      /\ tree'.topo[root] = LeaderTopo(<<>>)
      /\ \A m \in Node : tree'.rank[m] # 0 => m = root
  <2>1. /\ tree.rank \in [Node -> Nat] /\ tree.role \in [Node -> Roles]
        /\ tree.level \in [Node -> Nat] /\ tree.topo \in [Node -> Topos]
    BY <1>2 DEF Trees
  <2>2. \A m \in Node : tree.rank[m] = 0
    BY <1>2, EmptyTreeFacts
  <2>. QED BY <1>2, <1>4, <1>5, <2>1, <2>2
<1>7. /\ Len(queue') = 1 /\ queue'[1].leader = root /\ queue'[1].path = <<>>
      /\ queue'[1].depth = 0 /\ idx' = 2 /\ qi' = 1 /\ slot' = 1 /\ pub' = pub
      /\ pc' \in {"children", "publish"}
  BY <1>1 DEF PlaceRoot
<1>8. LoopsInForm'
  <2>1. 2 + (1 - 1) * (Y + N) + (1 - 1) = 2 /\ 1 + (1 - 1) * Y + (1 - 1) = 1
    BY CapacityAssumption
  <2>. QED BY <1>7, <2>1 DEF LoopsInForm, Placing
<1>9. QueueInForm'
  <2>1. ASSUME NEW k \in 1 .. Len(queue')
        PROVE  /\ tree'.rank[queue'[k].leader] = QueueRank(k - 1)
               /\ queue'[k].depth = QueueLevel(k - 1)[k - 1]
    <3>1. k = 1 /\ k - 1 = 0
      BY <1>7
    <3>2. QueueRank(0) = 1
      BY DEF QueueRank
    <3>. QED BY <1>6, <1>7, <3>1, <3>2, QueueLevelIs
  <2>2. \A k \in 1 .. Len(queue') : k = 1
    BY <1>7
  <2>3. 2 .. Len(queue') = {}
    BY <1>7
  <2>. QED BY <1>7, <2>1, <2>2, <2>3 DEF QueueInForm
<1>10. InForm(tree)'
  BY <1>6 DEF InForm, LevelAtRank, LeadsAtRank
<1>11. TopologyInForm'
  <2>1. LeaderInQueue(root)'
    <3>1. 1 \in 1 .. Len(queue')
      BY <1>7
    <3>. QED BY <1>6, <1>7, <3>1 DEF LeaderInQueue
  <2>. QED BY <1>6, <2>1 DEF TopologyInForm
<1>12. InForm(pub)' /\ Distinct(pub)'
  BY <1>7 DEF Form, InForm, Distinct, Placed
<1>. QED BY <1>8, <1>9, <1>10, <1>11, <1>12 DEF Form

LEMMA FormInvariance == Spec => [](IInv /\ Form)
<1>1. Init => IInv /\ Form
  BY InitEstablishes, EmptyInForm DEF Init, Form, LoopsInForm, Placing
<1>2. IInv /\ Form /\ [Next]_vars => (IInv /\ Form)'
  <2>1. SUFFICES ASSUME IInv, Form, [Next]_vars
                 PROVE  Form'
    BY NextPreserves
  <2>2. CASE UNCHANGED vars
    BY <2>1, <2>2, OthersKeepForm DEF Form, LoopsInForm, Placing, vars
  <2>. QED BY <2>1, <2>2, BeginKeepsForm, RootKeepsForm, ChildKeepsForm, EndChildrenKeepsForm,
              FollowerKeepsForm, EndFollowersKeepsForm, PublishKeepsForm DEF Next
<1>. QED BY <1>1, <1>2, PTL DEF Spec
-----------------------------------------------------------------------------
(* Placement.  Beside the two invariants: whom the cascade places, in what *)
(* order; who has got a place; and that who has none is in no map.         *)
InOrder == pc # "idle" => \E S \in NodeSets \ {{}} : filtered = Sorted(S, q)

PlacedSoFar == \A i \in 1 .. idx - 1 : tree.rank[filtered[i]] = i

Unplaced(t) ==
  \A n \in Node : t.rank[n] = 0 => t.parent[n] = 0 /\ t.role[n] = "none" /\ t.level[n] = 0

Standing == InOrder /\ PlacedSoFar /\ Unplaced(tree)

LEMMA InitStands == Init => Standing
BY DEF Init, Standing, InOrder, PlacedSoFar, Unplaced, EmptyTree

LEMMA PlacedStands ==
  ASSUME IInv, Standing, NEW p, NEW role, NEW level, NEW topo,
         PlacedUnder(filtered[idx], p, role, level, topo),
         idx' = idx + 1, UNCHANGED <<q, filtered>>, pc # "idle"
  PROVE  Standing'
<1>1. idx \in Nat \ {0}
  BY DEF IInv, TypeOK
<1>2. InOrder'
  BY DEF Standing, InOrder
<1>3. PlacedSoFar'
  <2>1. SUFFICES ASSUME NEW i \in 1 .. idx
                 PROVE  tree'.rank[filtered[i]] = i
    BY <1>1 DEF PlacedSoFar
  <2>2. CASE i = idx
    BY <2>2 DEF PlacedUnder
  <2>3. CASE i # idx
    <3>1. i \in 1 .. idx - 1 /\ i \in 1 .. Len(filtered) /\ filtered \in Seq(Node)
      BY <1>1, <2>3 DEF IInv, TypeOK, FilteredOnce
    <3>2. tree.rank[filtered[i]] = i /\ filtered[i] \in Node
      BY <3>1 DEF Standing, PlacedSoFar
    <3>. QED BY <3>1, <3>2 DEF PlacedUnder
  <2>. QED BY <2>2, <2>3
<1>4. Unplaced(tree)'
  BY <1>1 DEF Standing, Unplaced, PlacedUnder
<1>. QED BY <1>2, <1>3, <1>4 DEF Standing

LEMMA NextStands ==
  ASSUME IInv, Standing, [Next]_vars
  PROVE  Standing'
<1>1. CASE Begin
  <2>1. idx' = 1 /\ tree' = tree
    BY <1>1 DEF Begin, IInv, FreshStart
  <2>2. InOrder'
    BY <1>1 DEF Begin, InOrder
  <2>3. PlacedSoFar'
    BY <2>1 DEF PlacedSoFar
  <2>. QED BY <2>1, <2>2, <2>3 DEF Standing, Unplaced
<1>2. CASE PlaceRoot
  <2>1. PICK root : root = filtered[1]
    OBVIOUS
  <2>2. tree = EmptyTree /\ idx = 1 /\ root \in Node /\ idx' = 2 /\ UNCHANGED <<q, filtered>>
        /\ tree' = Assign(root, "leader", 0, RootTopo, 0) /\ pc = "root"
    BY <1>2, <2>1 DEF PlaceRoot, FreshStart, FilteredOnce, IInv, TypeOK
  <2>3. /\ tree'.rank[root] = 1
        /\ \A m \in Node \ {root} : /\ tree'.rank[m] = 0 /\ tree'.parent[m] = 0
                                    /\ tree'.role[m] = "none" /\ tree'.level[m] = 0
    BY <2>2 DEF Assign, EmptyTree
  <2>4. PlacedSoFar'
    <3>1. \A i \in 1 .. idx' - 1 : i = 1
      BY <2>2
    <3>. QED BY <2>1, <2>2, <2>3, <3>1 DEF PlacedSoFar
  <2>5. Unplaced(tree)'
    BY <2>3 DEF Unplaced
  <2>. QED BY <2>2, <2>4, <2>5 DEF Standing, InOrder
<1>3. CASE PlaceChild
  BY <1>3, ChildIsPlaced, PlacedStands DEF PlaceChild
<1>4. CASE PlaceFollower
  BY <1>4, FollowerIsPlaced, PlacedStands DEF PlaceFollower
<1>5. CASE EndChildren \/ EndFollowers
  BY <1>5 DEF EndChildren, EndFollowers, Standing, InOrder, PlacedSoFar, Unplaced
<1>6. CASE Publish
  <2>1. pc' = "idle" /\ idx' = 1 /\ tree' = EmptyTree
    BY <1>6 DEF Publish
  <2>. QED
    BY <2>1 DEF Standing, InOrder, PlacedSoFar, Unplaced, EmptyTree
<1>7. CASE UNCHANGED vars
  BY <1>7 DEF vars, Standing, InOrder, PlacedSoFar, Unplaced
<1>. QED BY <1>1, <1>2, <1>3, <1>4, <1>5, <1>6, <1>7 DEF Next
-----------------------------------------------------------------------------
(* A tree in form is the one Placement gives its ranking.                  *)
LEMMA SameForm ==
  /\ \A i : AtOnce!LeadsAtRank(i) = LeadsAtRank(i)
  /\ \A i : AtOnce!ParentRank(i) = ParentRank(i)
  /\ \A i : AtOnce!LevelAtRank(i) = LevelAtRank(i)
<1>1. \A i : AtOnce!GroupOf(i) = GroupOf(i) /\ AtOnce!SlotOf(i) = SlotOf(i)
  BY DEF AtOnce!GroupOf, GroupOf, AtOnce!SlotOf, SlotOf
<1>2. \A i : AtOnce!LeadsAtRank(i) = LeadsAtRank(i)
  BY <1>1 DEF AtOnce!LeadsAtRank, LeadsAtRank
<1>3. \A k : AtOnce!QueueRank(k) = QueueRank(k)
  BY DEF AtOnce!QueueRank, QueueRank
<1>4. \A m : AtOnce!QueueLevel(m) = QueueLevel(m)
  BY Zenon DEF AtOnce!QueueLevel, QueueLevel
<1>5. \A i : AtOnce!ParentRank(i) = ParentRank(i)
  BY <1>1, <1>3 DEF AtOnce!ParentRank, ParentRank
<1>6. \A i : AtOnce!LevelAtRank(i) = LevelAtRank(i)
  BY <1>1, <1>2, <1>4, Zenon DEF AtOnce!LevelAtRank, LevelAtRank
<1>. QED BY <1>2, <1>5, <1>6

Shown(t) ==
  [rank |-> t.rank, parent |-> t.parent, level |-> t.level,
   leads |-> [n \in Node |-> t.role[n] = "leader"], child |-> t.child, foll |-> t.foll]

RanksDiffer(t) == \A m, n \in Node : t.rank[m] = t.rank[n] /\ t.rank[n] # 0 => m = n

LEMMA InFormIsTreeOf ==
  ASSUME NEW t \in Trees, IsTree(t), InForm(t), Unplaced(t), RanksDiffer(t)
  PROVE  Shown(t) = AtOnce!TreeOf(t.rank)
<1> DEFINE r == t.rank
<1>1. /\ r \in [Node -> Nat] /\ t.parent \in [Node -> Node \cup {0}]
      /\ t.level \in [Node -> Nat] /\ t.role \in [Node -> Roles]
      /\ t.child \in [Node -> SUBSET Node] /\ t.foll \in [Node -> SUBSET Node]
  BY DEF Trees
<1>2. ASSUME NEW n \in Node PROVE AtOnce!ParentOf(r, n) = t.parent[n]
  <2>1. CASE r[n] > 1
    <3>1. t.parent[n] \in Node /\ r[t.parent[n]] # 0 /\ r[t.parent[n]] = ParentRank(r[n])
      BY <1>1, <2>1 DEF IsTree, HangsOn, InForm
    <3>2. \A p \in Node : r[p] = ParentRank(r[n]) => p = t.parent[n]
      BY <3>1 DEF RanksDiffer
    <3>3. (CHOOSE p \in Node : r[p] = ParentRank(r[n])) = t.parent[n]
      BY <3>1, <3>2
    <3>. QED BY <2>1, <3>3, SameForm DEF AtOnce!ParentOf
  <2>2. CASE r[n] = 1
    BY <2>2 DEF IsTree, AtOnce!ParentOf
  <2>3. CASE r[n] = 0
    BY <2>3 DEF Unplaced, AtOnce!ParentOf
  <2>. QED BY <1>1, <2>1, <2>2, <2>3
<1>3. ASSUME NEW n \in Node PROVE AtOnce!Leads(r, n) <=> t.role[n] = "leader"
  BY SameForm DEF InForm, Unplaced, AtOnce!Leads
<1>4. ASSUME NEW n \in Node
      PROVE  t.level[n] = IF r[n] = 0 THEN 0 ELSE AtOnce!LevelAtRank(r[n])
  BY SameForm DEF InForm, Unplaced
<1>5. ASSUME NEW p \in Node, NEW n \in Node
      PROVE  /\ n \in t.child[p] <=> n \in AtOnce!Under(r, p) /\ AtOnce!Leads(r, n)
             /\ n \in t.foll[p]  <=> n \in AtOnce!Under(r, p) /\ ~ AtOnce!Leads(r, n)
  <2>1. n \in AtOnce!Under(r, p) <=> r[n] > 1 /\ t.parent[n] = p
    BY <1>2 DEF AtOnce!Under
  <2>2. ASSUME r[n] > 1, t.parent[n] = p
        PROVE  /\ n \in t.child[p] <=> t.role[n] = "leader"
               /\ n \in t.foll[p]  <=> t.role[n] # "leader"
    BY <2>2 DEF IsTree, HangsOn
  <2>3. n \in t.child[p] \cup t.foll[p] => r[n] > 1 /\ t.parent[n] = p
    BY DEF IsTree
  <2>. QED BY <1>3, <2>1, <2>2, <2>3
<1> HIDE DEF r
<1>6. t.parent = [n \in Node |-> AtOnce!ParentOf(r, n)]
  BY <1>1, <1>2
<1>7. [n \in Node |-> t.role[n] = "leader"] = [n \in Node |-> AtOnce!Leads(r, n)]
  <2>1. \A n \in Node : (t.role[n] = "leader") = AtOnce!Leads(r, n)
    BY <1>3 DEF AtOnce!Leads
  <2>. QED BY <2>1, Zenon
<1>8. t.level = [n \in Node |-> IF r[n] = 0 THEN 0 ELSE AtOnce!LevelAtRank(r[n])]
  BY <1>1, <1>4
<1>9. \A p \in Node : AtOnce!Under(r, p) \subseteq Node
  BY DEF AtOnce!Under
<1>10. ASSUME NEW p \in Node
       PROVE  /\ t.child[p] = {n \in AtOnce!Under(r, p) : AtOnce!Leads(r, n)}
              /\ t.foll[p]  = {n \in AtOnce!Under(r, p) : ~ AtOnce!Leads(r, n)}
  BY <1>1, <1>5, <1>9
<1>11. /\ t.child = [p \in Node |-> {n \in AtOnce!Under(r, p) : AtOnce!Leads(r, n)}]
       /\ t.foll  = [p \in Node |-> {n \in AtOnce!Under(r, p) : ~ AtOnce!Leads(r, n)}]
  BY <1>1, <1>10
<1>. QED BY <1>6, <1>7, <1>8, <1>11, Zenon DEF r, Shown, AtOnce!TreeOf

LEMMA SameCardinality == \A S : AtOnce!Cardinality(S) = Cardinality(S)
  BY DEF AtOnce!Cardinality, Cardinality

(* When the maps are published they hold the ranking of the nodes that the *)
(* cascade found: filtered holds each of them, behind as many as are       *)
(* better, and every place of it has been given.                           *)
LEMMA PublishedRanking ==
  ASSUME IInv, Standing, pc = "publish"
  PROVE  \E S \in NodeSets \ {{}} : tree.rank = AtOnce!Ranking(S)
<1>1. PICK S \in NodeSets \ {{}} : filtered = Sorted(S, q)
  BY DEF Standing, InOrder
<1>2. /\ q \in [Node -> Quality] /\ S \subseteq Node /\ tree.rank \in [Node -> Nat]
      /\ filtered \in Seq(Node) /\ idx \in Nat \ {0}
  BY NodeAssumption DEF IInv, TypeOK, Trees
<1>3. PICK c \in Nat : c = Cardinality(S)
  BY <1>1, <1>2, SortedIsInjective
<1>4. Len(filtered) = c /\ filtered \in [1 .. c -> S]
  BY <1>1, <1>2, <1>3, SortedIsInjective
<1>5. idx = c + 1
  BY <1>2, <1>4 DEF IInv, NoLeftovers, FilteredOnce
<1>6. ASSUME NEW n \in Node
      PROVE  tree.rank[n] = AtOnce!Ranking(S)[n]
  <2>1. {m \in S : AtOnce!Outranks(m, n)} = {m \in S : Better(q, m, n)}
    BY DEF AtOnce!Outranks, Better
  <2>2. AtOnce!Ranking(S)[n]
          = IF n \in S THEN Cardinality({m \in S : Better(q, m, n)}) + 1 ELSE 0
    BY <2>1, SameCardinality DEF AtOnce!Ranking
  <2>3. CASE n \in S
    <3>1. PICK i \in 1 .. c : filtered[i] = n
      BY <1>1, <1>2, <1>3, <2>3, SortedIsInjective
    <3>2. Cardinality({m \in S : Better(q, m, n)}) = i - 1
      BY <1>1, <1>2, <1>3, <3>1, SortedIsInjective
    <3>3. tree.rank[n] = i
      BY <1>5, <3>1 DEF Standing, PlacedSoFar
    <3>. QED BY <2>2, <2>3, <3>2, <3>3
  <2>4. CASE n \notin S
    <3>1. tree.rank[n] # 0 => tree.rank[n] \in 1 .. c /\ filtered[tree.rank[n]] = n
      BY <1>2, <1>4 DEF IInv, PlacedPrefix
    <3>. QED BY <1>4, <2>2, <2>4, <3>1
  <2>. QED BY <2>3, <2>4
<1>7. tree.rank = AtOnce!Ranking(S)
  <2>1. AtOnce!Ranking(S) = [n \in Node |-> AtOnce!Ranking(S)[n]]
    BY DEF AtOnce!Ranking
  <2>. QED BY <1>2, <1>6, <2>1
<1>. QED BY <1>7

LEMMA AtOnceInit == Init => AtOnce!Init
<1>. SUFFICES ASSUME Init PROVE AtOnce!Init
  OBVIOUS
<1>1. RanksDiffer(EmptyTree) /\ Unplaced(EmptyTree) /\ EmptyTree.rank = [n \in Node |-> 0]
  BY DEF RanksDiffer, Unplaced, EmptyTree
<1>2. Shown(EmptyTree) = AtOnce!TreeOf([n \in Node |-> 0])
  BY <1>1, EmptyTreeFacts, EmptyIsTree, EmptyInForm, InFormIsTreeOf
<1>. QED BY <1>2 DEF Init, AtOnce!Init, Shown

LEMMA AtOnceStep ==
  IInv /\ Form /\ Standing /\ [Next]_vars => [AtOnce!Next]_(AtOnce!vars)
<1>. SUFFICES ASSUME IInv, Form, Standing, [Next]_vars
              PROVE  [AtOnce!Next]_(AtOnce!vars)
  OBVIOUS
<1>1. CASE Publish
  <2>1. PICK S \in NodeSets \ {{}} : tree.rank = AtOnce!Ranking(S)
    BY <1>1, PublishedRanking DEF Publish
  <2>2. RanksDiffer(tree)
    BY DEF IInv, PlacedPrefix, RanksDiffer
  <2>3. tree \in Trees /\ IsTree(tree) /\ InForm(tree) /\ Unplaced(tree)
    BY DEF IInv, TypeOK, AlwaysATree, Form, Standing
  <2>4. Shown(tree) = AtOnce!TreeOf(AtOnce!Ranking(S))
    BY <2>1, <2>2, <2>3, InFormIsTreeOf
  <2>5. AtOnce!Place(S)
    BY <1>1, <2>4 DEF Publish, AtOnce!Place, Shown
  <2>. QED BY <2>5 DEF AtOnce!Next
<1>2. CASE Begin \/ PlaceRoot \/ PlaceChild \/ EndChildren \/ PlaceFollower \/ EndFollowers
  <2>1. UNCHANGED <<q, pub>>
    BY <1>2 DEF Begin, PlaceRoot, PlaceChild, EndChildren, PlaceFollower, EndFollowers
  <2>. QED BY <2>1 DEF AtOnce!vars
<1>3. CASE UNCHANGED vars
  BY <1>3 DEF vars, AtOnce!vars
<1>. QED BY <1>1, <1>2, <1>3 DEF Next
-----------------------------------------------------------------------------
(* Turns.  Before the root is placed no leader has been served.            *)
NoneServed == pc \in {"idle", "root"} => qi = 1

LEMMA NextServesNone == NoneServed /\ [Next]_vars => NoneServed'
BY DEF NoneServed, Next, vars, Begin, PlaceRoot, PlaceChild, EndChildren, PlaceFollower,
       EndFollowers, Publish

(* What is left, by the place of the loops before and after a turn.        *)
LEMMA TurnsOfLoops ==
  /\ pc = "children" =>
       TurnsLeft = 3 * (Len(filtered) + 1 - idx) + 2 * (Len(queue) - qi) + 3
  /\ pc = "followers" =>
       TurnsLeft = 3 * (Len(filtered) + 1 - idx) + 2 * (Len(queue) - qi) + 2
BY DEF TurnsLeft

LEMMA TurnsAfter ==
  /\ pc' = "children" =>
       TurnsLeft' = 3 * (Len(filtered') + 1 - idx') + 2 * (Len(queue') - qi') + 3
  /\ pc' = "followers" =>
       TurnsLeft' = 3 * (Len(filtered') + 1 - idx') + 2 * (Len(queue') - qi') + 2
  /\ pc' = "publish" => TurnsLeft' = 1
BY DEF TurnsLeft

LEMMA TurnAdvances ==
  ASSUME IInv, IInv', NoneServed, [Next]_vars, vars' # vars, pc # "idle"
  PROVE  TurnsLeft' \in 0 .. TurnsLeft - 1
<1>1. /\ idx \in Nat \ {0} /\ qi \in Nat \ {0} /\ slot \in Nat \ {0} /\ idx' \in Nat \ {0}
      /\ filtered \in Seq(Node) /\ queue \in Seq(QueueItem) /\ idx <= Len(filtered) + 1
      /\ Placing => qi <= Len(queue)
  BY DEF IInv, TypeOK, FilteredOnce, QueueServed
<1>2. Len(filtered) \in Nat /\ Len(queue) \in Nat
  BY <1>1
<1>3. CASE PlaceRoot
  <2>1. idx = 1 /\ qi = 1 /\ Len(queue) = 0
    BY <1>3 DEF PlaceRoot, IInv, FreshStart, NoneServed
  <2>2. /\ pc = "root" /\ idx' = 2 /\ qi' = 1 /\ Len(queue') = 1 /\ filtered' = filtered
        /\ pc' = IF Len(filtered) > 1 THEN "children" ELSE "publish"
    BY <1>3 DEF PlaceRoot
  <2>3. Len(filtered) > 0
    BY <1>1, <1>2, <2>2 DEF IInv, FilteredOnce
  <2>. QED BY <1>2, <2>1, <2>2, <2>3 DEF TurnsLeft
<1>4. CASE PlaceChild
  <2>1. PICK item : queue' = Append(queue, item)
    BY <1>4 DEF PlaceChild
  <2>2. Len(queue') = Len(queue) + 1
    BY <1>1, <2>1
  <2>3. pc = "children" /\ pc' = pc /\ idx <= Len(filtered) /\ idx' = idx + 1
        /\ UNCHANGED <<filtered, qi>>
    BY <1>4 DEF PlaceChild
  <2>4. qi <= Len(queue)
    BY <1>1, <2>3 DEF Placing
  <2>. QED BY <1>1, <1>2, <2>2, <2>3, <2>4, TurnsOfLoops, TurnsAfter
<1>5. CASE EndChildren
  <2>1. pc = "children" /\ pc' = "followers" /\ UNCHANGED <<filtered, idx, queue, qi>>
    BY <1>5 DEF EndChildren
  <2>2. qi <= Len(queue)
    BY <1>1, <2>1 DEF Placing
  <2>. QED BY <1>1, <1>2, <2>1, <2>2, TurnsOfLoops, TurnsAfter
<1>6. CASE PlaceFollower
  <2>1. pc = "followers" /\ pc' = pc /\ idx <= Len(filtered) /\ idx' = idx + 1
        /\ UNCHANGED <<filtered, queue, qi>>
    BY <1>6 DEF PlaceFollower
  <2>2. qi <= Len(queue)
    BY <1>1, <2>1 DEF Placing
  <2>. QED BY <1>1, <1>2, <2>1, <2>2, TurnsOfLoops, TurnsAfter
<1>7. CASE EndFollowers
  <2>1. /\ pc = "followers" /\ qi' = qi + 1 /\ UNCHANGED <<filtered, idx, queue>>
        /\ pc' = IF qi' <= Len(queue) /\ idx <= Len(filtered) THEN "children" ELSE "publish"
    BY <1>7 DEF EndFollowers
  <2>2. qi <= Len(queue)
    BY <1>1, <2>1 DEF Placing
  <2>. QED BY <1>1, <1>2, <2>1, <2>2, TurnsOfLoops, TurnsAfter
<1>8. CASE Publish
  BY <1>8 DEF Publish, TurnsLeft
<1>. QED BY <1>3, <1>4, <1>5, <1>6, <1>7, <1>8 DEF Next, Begin
-----------------------------------------------------------------------------
(* The variables of the cascade have the types TypeOK gives them.          *)
THEOREM CascadeTypes == Spec => []TypeOK
<1>1. IInv => TypeOK
  BY DEF IInv
<1> QED BY <1>1, Invariance, PTL

(* Whatever the nodes and their qualities, the maps form one tree at every *)
(* turn of applyPlacementCascade's loops and when they are published: the  *)
(* readers that follow parentByNode to the root meet no loop.              *)
THEOREM CascadeBuildsATree == Spec => []AlwaysATree
<1>1. IInv => AlwaysATree
  BY DEF IInv
<1> QED BY <1>1, Invariance, PTL

(* No leader is given more than Y child leaders and N followers.           *)
THEOREM CascadeRespectsCapacity == Spec => []CapacityRespected
<1>1. IInv => CapacityRespected
  BY DEF IInv
<1> QED BY <1>1, Invariance, PTL

(* The fallback loop of applyPlacementCascade ("should not happen with     *)
(* Y>=1") never has a node to attach.                                      *)
THEOREM CascadeLeavesNobodyOver == Spec => []NoLeftovers
<1>1. IInv => NoLeftovers
  BY DEF IInv
<1> QED BY <1>1, Invariance, PTL

(* Topology ids identify nodes, whatever the qualities and the sizes: in   *)
(* the maps applyPlacementCascade builds, at every turn of its loops, and  *)
(* in the published ones, where KillNodes looks for the node with id "0".  *)
THEOREM TopologyIDsDiffer == Spec => []DistinctTopologyIDs
<1>1. IInv /\ Form => DistinctTopologyIDs
  BY TreeIsDistinct DEF Form, Distinct, DistinctTopologyIDs
<1>. QED BY <1>1, FormInvariance, PTL

(* The loops of applyPlacementCascade compute the closed form: who leads,  *)
(* on which level and under whom is a function of a node's rank, for every *)
(* Y, N and number of nodes.                                               *)
THEOREM CascadeMatchesClosedForm == Spec => []MatchesClosedForm
<1>1. Form => MatchesClosedForm
  BY DEF Form, InForm, MatchesClosedForm, Placed
<1>. QED BY <1>1, FormInvariance, PTL

(* The cascade implements Placement, whatever its loops do in between: the *)
(* maps that applyPlacementCascade publishes give every node it found the  *)
(* place of its rank by quality (betterPeer), nobody a second one, and     *)
(* hold nobody else; and no other step of it changes what is published.    *)
THEOREM CascadePlacesAtOnce == Spec => PlacesAtOnce
<1>1. Init => IInv /\ Form /\ Standing
  BY InitEstablishes, EmptyInForm, InitStands DEF Init, Form, LoopsInForm, Placing
<1>2. IInv /\ Standing /\ [Next]_vars => Standing'
  BY NextStands
<1>3. Spec => [](IInv /\ Form /\ Standing)
  BY <1>1, <1>2, FormInvariance, PTL DEF Spec
<1>. QED BY <1>3, AtOnceInit, AtOnceStep, PTL DEF Spec, PlacesAtOnce, AtOnce!Spec

(* A cascade over n nodes is through after at most 3 * n + 1 turns of the  *)
(* loops of applyPlacementCascade, for every Y and N: each turn leaves     *)
(* less to do, and outside a cascade nothing is left.                      *)
THEOREM CascadeTurnsAdvance == Spec => TurnsAdvance
<1>1. Init => NoneServed
  BY DEF Init, NoneServed
<1>2. Spec => []NoneServed
  BY <1>1, NextServesNone, PTL DEF Spec
<1>3. IInv /\ IInv' /\ NoneServed /\ [Next]_vars
        => [pc # "idle" => TurnsLeft' \in 0 .. TurnsLeft - 1]_vars
  BY TurnAdvances
<1>. QED BY <1>2, <1>3, Invariance, PTL DEF Spec, TurnsAdvance
=============================================================================
