--------------------------- MODULE MutationProofs ---------------------------
(***************************************************************************)
(* What kills, spawns and cascades can do to the published maps together:  *)
(* the types, the forest and the end of every killed node's entries, for   *)
(* any number of nodes and requests and any Y and N.                       *)
(***************************************************************************)
EXTENDS Mutation, FiniteSetTheorems, TLAPS

-----------------------------------------------------------------------------
(* Placement: a node's parent has the smaller rank.                        *)

(* Division with remainder.                                                *)
LEMMA Division ==
  ASSUME NEW a \in Nat, NEW b \in Nat \ {0}
  PROVE  a \div b \in Nat /\ a % b \in 0 .. (b - 1) /\ a = b * (a \div b) + (a % b)
BY SMT

(* The a-th and later leaders of a queue that grows by Y of every Y + N    *)
(* ranks stay ahead of the ranks they take.                                *)
LEMMA QueueStaysAhead ==
  ASSUME NEW a \in Nat, NEW b \in Nat, NEW M \in Nat, M > Y
  PROVE  a * M + b < (Y * a + b + 1) * M
<1>. Y \in Nat /\ Y >= 1
  BY CapacityAssumption
<1>1. a <= Y * a
  BY SMT
<1>2. a * M <= (Y * a) * M
  BY <1>1, SMT
<1>3. b + 1 <= (b + 1) * M
  BY SMT
<1>4. (Y * a + b + 1) * M = (Y * a) * M + (b + 1) * M
  BY SMT
<1>. QED
  BY <1>2, <1>3, <1>4, SMT

(* The closed form of the tree: the parent of rank i > 1 comes before it.  *)
LEMMA ParentRankBelow ==
  ASSUME NEW i \in Nat, i > 1
  PROVE  ParentRank(i) \in 1 .. (i - 1)
<1>. DEFINE M == Y + N
            g == (i - 2) \div M
<1>1. M \in Nat \ {0} /\ M > Y /\ Y \in Nat \ {0} /\ i - 2 \in Nat
  BY CapacityAssumption
<1>2. g \in Nat /\ (i - 2) % M \in 0 .. (M - 1) /\ i - 2 = M * g + ((i - 2) % M)
  <2>. HIDE DEF M
  <2>. QED BY <1>1, Division
<1>3. GroupOf(i) = g
  BY DEF GroupOf
<1>4. CASE g = 0
  BY <1>3, <1>4 DEF ParentRank, QueueRank
<1>5. CASE g # 0
  <2>. DEFINE a == (g - 1) \div Y
              b == (g - 1) % Y
  <2>1. a \in Nat /\ b \in 0 .. (Y - 1) /\ g - 1 = Y * a + b
    <3>1. g - 1 \in Nat
      BY <1>2, <1>5
    <3>. HIDE DEF g
    <3>. QED BY <1>1, <3>1, Division
  <2>2. ParentRank(i) = 2 + a * M + b
    BY <1>3, <1>5 DEF ParentRank, QueueRank
  <2>3. a * M + b < (Y * a + b + 1) * M
    <3>1. b \in Nat
      BY <2>1, <1>1
    <3>. HIDE DEF a, b, M
    <3>. QED BY <1>1, <2>1, <3>1, QueueStaysAhead
  <2>4. (Y * a + b + 1) * M = M * g
    <3>1. Y * a + b + 1 = g
      BY <1>1, <1>2, <2>1, SMT
    <3>. HIDE DEF a, b, g, M
    <3>. QED BY <1>1, <1>2, <3>1, SMT
  <2>5. a * M \in Nat
    BY <1>1, <2>1, SMT
  <2>. HIDE DEF a, b, g, M
  <2>. QED
    BY <1>1, <1>2, <2>1, <2>2, <2>3, <2>4, <2>5, SMT
<1>. QED
  BY <1>4, <1>5

(* Every node has a rank of its own.                                       *)
Injective(rank) ==
  \A m, n \in Node : rank[m] # 0 /\ rank[m] = rank[n] => m = n

(* What sorting the nodes of S gives.                                      *)
LEMMA RankingsRank ==
  ASSUME NEW S, S \subseteq Node, NEW rank \in Rankings(S)
  PROVE  /\ rank \in [Node -> Nat]
         /\ \A n \in Node : rank[n] # 0 <=> n \in S
         /\ Injective(rank)
         /\ \A m \in S : \A k \in 1 .. rank[m] : \E n \in S : rank[n] = k
<1>1. IsFiniteSet(S)
  BY NodeAssumption, FS_Subset
<1>2. Cardinality(S) \in Nat
  BY <1>1, FS_CardinalityType
<1>3. PICK r \in Bijection(S, 1 .. Cardinality(S)) :
        rank = [n \in Node |-> IF n \in S THEN r[n] ELSE 0]
  BY DEF Rankings
<1>4. /\ r \in [S -> 1 .. Cardinality(S)]
      /\ \A m, n \in S : r[m] = r[n] => m = n
      /\ \A k \in 1 .. Cardinality(S) : \E n \in S : r[n] = k
  BY DEF Bijection, Injection, Surjection, IsInjective
<1>5. \A n \in S : rank[n] = r[n] /\ rank[n] \in 1 .. Cardinality(S)
  BY <1>3, <1>4
<1>6. \A m \in S : \A k \in 1 .. rank[m] : \E n \in S : rank[n] = k
  <2>. TAKE m \in S
  <2>. TAKE k \in 1 .. rank[m]
  <2>1. k \in 1 .. Cardinality(S)
    BY <1>2, <1>5
  <2>. QED
    BY <1>4, <1>5, <2>1
<1>. QED
  BY <1>2, <1>3, <1>4, <1>6 DEF Injective

(* A parent is placed and comes before its child.                          *)
LEMMA ParentComesBefore ==
  ASSUME NEW rank \in [Node -> Nat], NEW n \in Node, NEW p \in Node, ParentIn(rank, n) = p
  PROVE  rank[n] > 1 /\ rank[p] # 0 /\ rank[p] < rank[n]
<1>. DEFINE parents == {x \in Node : rank[n] > 1 /\ rank[x] = ParentRank(rank[n])}
<1>1. parents # {} /\ p \in parents
  BY NodeAssumption DEF ParentIn
<1>2. rank[n] > 1 /\ rank[p] = ParentRank(rank[n])
  BY <1>1
<1>3. rank[n] \in Nat /\ rank[p] \in Nat
  OBVIOUS
<1>4. ParentRank(rank[n]) \in 1 .. (rank[n] - 1)
  BY <1>2, <1>3, ParentRankBelow
<1>. QED
  BY <1>2, <1>3, <1>4

(* The tree of a ranking is a forest of the ranked nodes.                  *)
LEMMA TreeOfIsForest ==
  ASSUME NEW rank \in [Node -> Nat]
  PROVE  /\ TreeOf(rank) \in Maps
         /\ Placed(TreeOf(rank)) = {n \in Node : rank[n] # 0}
         /\ Forest(TreeOf(rank))
<1>1. \A n \in Node : ParentIn(rank, n) \in Node \cup {NoNode}
  BY DEF ParentIn
<1>2. TreeOf(rank) \in Maps
  BY <1>1 DEF TreeOf, Maps
<1>3. Placed(TreeOf(rank)) = {n \in Node : rank[n] # 0}
  BY DEF TreeOf, Placed
<1>4. ASSUME NEW p \in Node, NEW n \in Node
      PROVE  /\ n \in TreeOf(rank).under[p] <=> ParentIn(rank, n) = p
             /\ TreeOf(rank).parent[n] = ParentIn(rank, n)
             /\ TreeOf(rank).rank[n] = rank[n] /\ TreeOf(rank).rank[p] = rank[p]
  BY DEF TreeOf
<1>5. Forest(TreeOf(rank))
  <2>. SUFFICES ASSUME NEW p \in Node, NEW n \in Node, ParentIn(rank, n) = p
                PROVE  rank[n] # 0 /\ rank[p] # 0 /\ rank[p] < rank[n]
    BY <1>3, <1>4 DEF Forest
  <2>. QED
    BY ParentComesBefore
<1>. QED
  BY <1>2, <1>3, <1>5

(* Under one root everything hangs together.                               *)
Whole(t) ==
  /\ \E root \in Node : {n \in Node : t.rank[n] = 1} = {root}
  /\ \A n \in Placed(t) : t.rank[n] = 1 \/ t.parent[n] \in Placed(t)

(* A tree of sorted nodes leaves no gap in the ranks, so it is whole.      *)
LEMMA TreeOfIsWhole ==
  ASSUME NEW S, S \subseteq Node, S # {}, NEW rank \in Rankings(S)
  PROVE  Whole(TreeOf(rank))
<1>1. /\ rank \in [Node -> Nat] /\ Injective(rank)
      /\ \A n \in Node : rank[n] # 0 <=> n \in S
      /\ \A m \in S : \A k \in 1 .. rank[m] : \E n \in S : rank[n] = k
  BY RankingsRank
<1>2. Placed(TreeOf(rank)) = S
  BY <1>1, TreeOfIsForest
<1>3. PICK root \in S : rank[root] = 1
  <2>1. PICK m \in S : TRUE
    OBVIOUS
  <2>2. 1 \in 1 .. rank[m]
    BY <1>1
  <2>. QED
    BY <1>1, <2>2
<1>4. {n \in Node : rank[n] = 1} = {root}
  BY <1>1, <1>3 DEF Injective
<1>5. ASSUME NEW n \in S, rank[n] # 1
      PROVE  ParentIn(rank, n) \in S
  <2>1. rank[n] \in Nat /\ rank[n] > 1
    BY <1>1, <1>5
  <2>2. ParentRank(rank[n]) \in 1 .. rank[n] /\ ParentRank(rank[n]) # 0
    BY <2>1, ParentRankBelow
  <2>3. PICK p \in S : rank[p] = ParentRank(rank[n])
    BY <1>1, <2>2
  <2>4. \A x \in Node : rank[x] = ParentRank(rank[n]) => x \in S
    BY <1>1, <2>2
  <2>. QED
    BY <2>1, <2>3, <2>4 DEF ParentIn
<1>6. /\ TreeOf(rank).rank = rank
      /\ \A n \in Node : TreeOf(rank).parent[n] = ParentIn(rank, n)
  BY DEF TreeOf
<1>. QED
  BY <1>2, <1>4, <1>5, <1>6 DEF Whole

(* Pruning keeps the forest and takes just the removed nodes out.          *)
LEMMA PruneKeepsForest ==
  ASSUME NEW t \in Maps, Forest(t), NEW R, R \subseteq Node
  PROVE  /\ Pruned(t, R) \in Maps
         /\ Placed(Pruned(t, R)) = Placed(t) \ R
         /\ Forest(Pruned(t, R))
<1>. DEFINE u == Pruned(t, R)
<1>1. \A n \in Node : /\ u.rank[n] = IF n \in R THEN 0 ELSE t.rank[n]
                      /\ u.parent[n] = IF n \in R THEN NoNode ELSE t.parent[n]
                      /\ u.under[n] = IF n \in R THEN {} ELSE t.under[n] \ R
  BY DEF Pruned
<1>2. u \in Maps
  BY DEF Pruned, Maps
<1>3. Placed(u) = Placed(t) \ R
  BY <1>1 DEF Placed
<1>4. Forest(u)
  <2>. HIDE DEF u
  <2>. SUFFICES ASSUME NEW p \in Node, NEW n \in Node
                PROVE  /\ n \in u.under[p] => n \in Placed(u) /\ p \in Placed(u) /\ u.parent[n] = p
                       /\ n \in Placed(u) /\ p \in Placed(u) /\ u.parent[n] = p
                            => n \in u.under[p] /\ u.rank[p] < u.rank[n]
    BY DEF Forest
  <2>. QED
    <3>1. t.under[p] \subseteq Node /\ t.parent[n] \in Node \cup {NoNode}
      BY DEF Maps
    <3>2. /\ n \in t.under[p] => n \in Placed(t) /\ p \in Placed(t) /\ t.parent[n] = p
          /\ n \in Placed(t) /\ p \in Placed(t) /\ t.parent[n] = p
               => n \in t.under[p] /\ t.rank[p] < t.rank[n]
      BY DEF Forest
    <3>3. CASE n \in R \/ p \in R
      BY <1>1, <1>3, <3>1, <3>2, <3>3, NodeAssumption
    <3>4. CASE n \notin R /\ p \notin R
      <4>1. /\ u.rank[n] = t.rank[n] /\ u.rank[p] = t.rank[p] /\ u.parent[n] = t.parent[n]
            /\ u.under[p] = t.under[p] \ R
        BY <1>1, <3>4
      <4>. QED
        BY <1>3, <3>2, <3>4, <4>1
    <3>. QED
      BY <3>3, <3>4
<1>. QED
  BY <1>2, <1>3, <1>4
-----------------------------------------------------------------------------
(* The inductive invariant.                                                *)

(* A call holds placementMu exactly while it is placing, and the calls     *)
(* that have nothing removed yet, or no more, have an empty list.          *)
CallsInOrder ==
  \A c \in Caller :
    /\ call[c].at = "placing" <=> cas.by = c
    /\ call[c].at \in {"idle", "spawn"} => call[c].removed = {}

(* Ids are not reused: nothing a map or a cascade places can be spawned.   *)
OldIdsOnly ==
  /\ Placed(pub) \subseteq used
  /\ \A n \in Node : cas.rank[n] # 0 => n \in used

(* A node that went away under a running cascade has a kill that waits to  *)
(* run its own cascade after it.                                           *)
LateKillsFollow ==
  cas.by # Nobody =>
    \A n \in Node \ alive :
      cas.rank[n] # 0 =>
        \E c \in Caller : n \in call[c].removed /\ call[c].at \in {"remove", "cascade"}

(* What a running cascade places it ranked when it took placementMu.       *)
RunningCascade ==
  cas.by # Nobody => \E S \in SUBSET Node : S # {} /\ cas.rank \in Rankings(S)

(* A live node has its place, in the maps or in the cascade that replaces  *)
(* them, or a cascade is coming that gives it one.                         *)
NewNodesFollow ==
  \A n \in alive :
    \/ IF cas.by = Nobody THEN n \in Placed(pub) ELSE cas.rank[n] # 0
    \/ \E c \in Caller : call[c].at \in {"spawn", "cascade"}

(* What a kill counts as removed is gone.                                  *)
RemovedAreDead ==
  \A c \in Caller : call[c].removed \subseteq used \ alive

(* The published tree is in pieces only while a cascade is to come.        *)
WholeInTheEnd ==
  \/ alive = {} \/ Whole(pub)
  \/ \E c \in Caller : call[c].at \in {"spawn", "cascade", "placing"}

IInv ==
  /\ TypeOK
  /\ CallsInOrder
  /\ RunningCascade
  /\ OldIdsOnly
  /\ RemovedAreDead
  /\ LateKillsFollow
  /\ NewNodesFollow
  /\ WholeInTheEnd
  /\ DeadNodesLeaveTheMaps
  /\ PublishedForest
-----------------------------------------------------------------------------
(* The initial states.                                                     *)
LEMMA InitHolds == Init => IInv
<1>. SUFFICES ASSUME Init PROVE IInv
  OBVIOUS
<1>1. PICK r \in Rankings(InitialNodes) : pub = TreeOf(r)
  BY DEF Init
<1>2. /\ r \in [Node -> Nat] /\ \A n \in Node : r[n] # 0 <=> n \in InitialNodes
  BY RankingsRank, NodeAssumption
<1>3. pub \in Maps /\ Placed(pub) = InitialNodes /\ Forest(pub)
  BY <1>1, <1>2, TreeOfIsForest, NodeAssumption
<1>4. InitialNodes = {} \/ Whole(pub)
  BY <1>1, TreeOfIsWhole, NodeAssumption
<1>5. Idle \in Calls
  BY DEF Idle, Calls
<1>6. TypeOK
  BY <1>3, <1>5, NodeAssumption DEF Init, TypeOK, Free, Unranked
<1>7. \A c \in Caller : call[c].at = "idle" /\ call[c].removed = {}
  BY DEF Init, Idle
<1>8. cas.by = Nobody /\ \A n \in Node : cas.rank[n] = 0
  BY DEF Init, Free, Unranked
<1>9. CallsInOrder /\ RunningCascade /\ RemovedAreDead /\ LateKillsFollow
  BY <1>7, <1>8, CallerAssumption
     DEF CallsInOrder, RunningCascade, RemovedAreDead, LateKillsFollow
<1>10. OldIdsOnly /\ NewNodesFollow /\ WholeInTheEnd /\ DeadNodesLeaveTheMaps
  BY <1>3, <1>4, <1>8
     DEF Init, OldIdsOnly, NewNodesFollow, WholeInTheEnd, DeadNodesLeaveTheMaps
<1>. QED
  BY <1>3, <1>6, <1>9, <1>10 DEF IInv, PublishedForest

(* Taking placementMu, for a join or for a call that had it coming.        *)
LEMMA TakeKeeps ==
  ASSUME IInv, JoinCascade \/ \E c \in Caller : CallCascade(c)
  PROVE  IInv'
<1>1. PICK b \in Caller \cup {Joiner} :
        /\ Take(b)
        /\ b \in Caller => call[b].at = "cascade" /\ call' = [call EXCEPT ![b].at = "placing"]
        /\ b = Joiner => call' = call
  BY CallerAssumption DEF JoinCascade, CallCascade
<1>2. PICK r \in Rankings(alive) : cas' = [by |-> b, rank |-> r]
  BY <1>1 DEF Take
<1>3. /\ cas.by = Nobody /\ alive # {} /\ alive' = alive /\ used' = used /\ pub' = pub
      /\ cas'.by = b /\ cas'.rank = r
  BY <1>1, <1>2 DEF Take
<1>4. TypeOK /\ alive \subseteq Node
  BY DEF IInv, TypeOK
<1>5. r \in [Node -> Nat] /\ \A n \in Node : r[n] # 0 <=> n \in alive
  BY <1>4, RankingsRank
<1>6. call' \in [Caller -> Calls]
  <2>1. CASE b = Joiner
    BY <1>1, <1>4, <2>1 DEF TypeOK
  <2>2. CASE b \in Caller
    <3>1. [call[b] EXCEPT !.at = "placing"] \in Calls
      BY <1>4, <2>2 DEF TypeOK, Calls
    <3>. QED
      BY <1>1, <1>4, <2>2, <3>1 DEF TypeOK
  <2>. QED
    BY <2>1, <2>2
<1>7. \A c \in Caller : /\ call'[c].removed = call[c].removed
                        /\ c # b => call'[c] = call[c]
                        /\ c = b => call'[c].at = "placing" /\ call[c].at = "cascade"
  BY <1>1, <1>4, CallerAssumption DEF TypeOK, Calls
<1>8. TypeOK'
  BY <1>2, <1>3, <1>4, <1>5, <1>6 DEF TypeOK
<1>9. CallsInOrder'
  <2>1. CallsInOrder
    BY DEF IInv
  <2>. QED
    BY <1>3, <1>7, <2>1, CallerAssumption DEF CallsInOrder
<1>10. RunningCascade' /\ OldIdsOnly'
  BY <1>2, <1>3, <1>4, <1>5 DEF IInv, RunningCascade, OldIdsOnly, TypeOK, Placed
<1>11. RemovedAreDead' /\ LateKillsFollow'
  BY <1>3, <1>5, <1>7 DEF IInv, RemovedAreDead, LateKillsFollow
<1>12. NewNodesFollow'
  BY <1>3, <1>4, <1>5, CallerAssumption DEF NewNodesFollow, Placed
<1>13. WholeInTheEnd'
  <2>1. WholeInTheEnd
    BY DEF IInv
  <2>2. ASSUME NEW c \in Caller, call[c].at \in {"spawn", "cascade", "placing"}
        PROVE  call'[c].at \in {"spawn", "cascade", "placing"}
    BY <1>7, <2>2
  <2>. QED
    BY <1>3, <2>1, <2>2 DEF WholeInTheEnd, Whole, Placed
<1>14. DeadNodesLeaveTheMaps' /\ PublishedForest'
  BY <1>3, <1>7 DEF IInv, DeadNodesLeaveTheMaps, PublishedForest, Placed, Forest
<1>. QED
  BY <1>8, <1>9, <1>10, <1>11, <1>12, <1>13, <1>14 DEF IInv

(* Publication.                                                            *)
LEMMA PublishKeeps ==
  ASSUME IInv, Publish
  PROVE  IInv'
<1>1. /\ cas.by # Nobody /\ pub' = TreeOf(cas.rank) /\ cas' = Free
      /\ call' = [c \in Caller |-> IF c = cas.by THEN Idle ELSE call[c]]
      /\ alive' = alive /\ used' = used
  BY DEF Publish
<1>2. TypeOK /\ alive \subseteq Node /\ cas.rank \in [Node -> Nat]
  BY DEF IInv, TypeOK
<1>3. PICK S \in SUBSET Node : S # {} /\ cas.rank \in Rankings(S)
  BY <1>1 DEF IInv, RunningCascade
<1>4. /\ pub' \in Maps /\ Forest(pub') /\ Whole(pub')
      /\ Placed(pub') = {n \in Node : cas.rank[n] # 0}
  BY <1>1, <1>2, <1>3, TreeOfIsForest, TreeOfIsWhole
<1>5. cas'.by = Nobody /\ cas' = [by |-> Nobody, rank |-> [n \in Node |-> 0]]
  BY <1>1 DEF Free, Unranked
<1>6. \A c \in Caller : IF c = cas.by THEN call'[c].at = "idle" /\ call'[c].removed = {}
                                      ELSE call'[c] = call[c]
  BY <1>1 DEF Idle
<1>7. Idle \in Calls
  BY DEF Idle, Calls
<1>8. TypeOK'
  BY <1>1, <1>2, <1>4, <1>5, <1>7 DEF TypeOK
<1>9. CallsInOrder /\ CallsInOrder'
  <2>1. CallsInOrder
    BY DEF IInv
  <2>. QED
    BY <1>5, <1>6, <2>1, CallerAssumption DEF CallsInOrder
<1>10. RunningCascade' /\ LateKillsFollow'
  BY <1>5 DEF RunningCascade, LateKillsFollow
<1>11. OldIdsOnly'
  BY <1>1, <1>4, <1>5 DEF IInv, OldIdsOnly, Placed
<1>12. RemovedAreDead'
  BY <1>1, <1>6 DEF IInv, RemovedAreDead
<1>13. NewNodesFollow'
  <2>. SUFFICES ASSUME NEW n \in alive, cas.rank[n] = 0
                PROVE  \E c \in Caller : call'[c].at \in {"spawn", "cascade"}
    BY <1>1, <1>2, <1>4, <1>5 DEF NewNodesFollow, Placed
  <2>1. \A c \in Caller : call[c].at \in {"spawn", "cascade"} => c # cas.by
    BY <1>9 DEF CallsInOrder
  <2>2. \E c \in Caller : call[c].at \in {"spawn", "cascade"}
    BY <1>1 DEF IInv, NewNodesFollow
  <2>. QED
    BY <1>6, <2>1, <2>2
<1>14. WholeInTheEnd'
  BY <1>4 DEF WholeInTheEnd, Whole, Placed
<1>15. DeadNodesLeaveTheMaps'
  <2>. SUFFICES ASSUME NEW n \in Node \ alive, cas.rank[n] # 0
                PROVE  \E c \in Caller : n \in call'[c].removed
    BY <1>1, <1>4 DEF DeadNodesLeaveTheMaps, Placed
  <2>1. PICK c \in Caller : n \in call[c].removed /\ call[c].at \in {"remove", "cascade"}
    BY <1>1 DEF IInv, LateKillsFollow
  <2>2. c # cas.by
    BY <1>9, <2>1 DEF CallsInOrder
  <2>. QED
    BY <1>6, <2>1, <2>2
<1>. QED
  BY <1>4, <1>8, <1>9, <1>10, <1>11, <1>12, <1>13, <1>14, <1>15 DEF IInv, PublishedForest, Forest, Placed

(* A step of call c alone, to r: it keeps what it has removed, and ends no *)
(* cascade that is owed.                                                   *)
CallStep(c, r) ==
  /\ UNCHANGED <<alive, used, pub, cas>>
  /\ call' = [call EXCEPT ![c] = r]
  /\ call[c].at # "placing" /\ r.at # "placing"
  /\ r.removed = call[c].removed
  /\ r.at \notin {"remove", "cascade"} => r.removed = {}
  /\ call[c].at \in {"spawn", "cascade"} => r.at \in {"spawn", "cascade"}

LEMMA CallStepKeeps ==
  ASSUME IInv, NEW c \in Caller, NEW r \in Calls, CallStep(c, r)
  PROVE  IInv'
<1>1. /\ alive' = alive /\ used' = used /\ pub' = pub /\ cas' = cas
      /\ call' = [call EXCEPT ![c] = r]
  BY DEF CallStep
<1>2. TypeOK
  BY DEF IInv
<1>3. TypeOK'
  BY <1>1, <1>2 DEF TypeOK
<1>4. \A d \in Caller : /\ call'[d].removed = call[d].removed
                        /\ call'[d].at = "placing" <=> call[d].at = "placing"
                        /\ call'[d].at \in {"idle", "spawn"} => call'[d].removed = {}
                        /\ call[d].at \in {"spawn", "cascade"} => call'[d].at \in {"spawn", "cascade"}
                        /\ call[d].at \in {"remove", "cascade"} /\ call[d].removed # {}
                             => call'[d].at \in {"remove", "cascade"}
  <2>1. CallsInOrder
    BY DEF IInv
  <2>2. call'[c] = r /\ \A d \in Caller \ {c} : call'[d] = call[d]
    BY <1>1, <1>2 DEF TypeOK
  <2>. QED
    BY <2>1, <2>2 DEF CallStep, CallsInOrder
<1>5. CallsInOrder' /\ RunningCascade' /\ OldIdsOnly' /\ RemovedAreDead'
  BY <1>1, <1>4 DEF IInv, CallsInOrder, RunningCascade, OldIdsOnly, RemovedAreDead, Placed
<1>6. LateKillsFollow'
  BY <1>1, <1>4 DEF IInv, LateKillsFollow
<1>7. NewNodesFollow'
  BY <1>1, <1>4 DEF IInv, NewNodesFollow, Placed
<1>8. WholeInTheEnd'
  BY <1>1, <1>4 DEF IInv, WholeInTheEnd, Whole, Placed
<1>9. DeadNodesLeaveTheMaps' /\ PublishedForest'
  BY <1>1, <1>4 DEF IInv, DeadNodesLeaveTheMaps, PublishedForest, Forest, Placed
<1>. QED
  BY <1>3, <1>5, <1>6, <1>7, <1>8, <1>9 DEF IInv

(* The selection of a kill, the start and the end of a spawn, and the end  *)
(* of a kill that found its nodes removed.                                 *)
LEMMA SelectKeeps ==
  ASSUME IInv, NEW c \in Caller, NEW x \in BOOLEAN, Select(c, x)
  PROVE  IInv'
<1>1. PICK S \in SUBSET alive :
        call' = [call EXCEPT ![c] = [Idle EXCEPT !.at = "remove", !.todo = S, !.excludeRoot = x]]
  BY DEF Select, Candidates
<1>. DEFINE r == [Idle EXCEPT !.at = "remove", !.todo = S, !.excludeRoot = x]
<1>2. r \in Calls /\ r.at = "remove" /\ r.removed = {}
  BY DEF IInv, TypeOK, Idle, Calls
<1>3. call[c].at = "idle" /\ call[c].removed = {}
  BY DEF Select, IInv, CallsInOrder
<1>4. CallStep(c, r)
  BY <1>1, <1>2, <1>3 DEF Select, CallStep
<1>. HIDE DEF r
<1>. QED
  BY <1>2, <1>4, CallStepKeeps

LEMMA SpawnBeginKeeps ==
  ASSUME IInv, NEW c \in Caller, SpawnBegin(c)
  PROVE  IInv'
<1>1. PICK k \in 1 .. MaxSpawn :
        call' = [call EXCEPT ![c] = [Idle EXCEPT !.at = "spawn", !.left = k]]
  BY DEF SpawnBegin
<1>. DEFINE r == [Idle EXCEPT !.at = "spawn", !.left = k]
<1>2. r \in Calls /\ r.at = "spawn" /\ r.removed = {}
  <2>1. k \in Nat
    BY RequestAssumption
  <2>. QED
    BY <2>1 DEF Idle, Calls
<1>3. call[c].at = "idle" /\ call[c].removed = {}
  BY DEF SpawnBegin, IInv, CallsInOrder
<1>4. CallStep(c, r)
  BY <1>1, <1>2, <1>3 DEF SpawnBegin, CallStep
<1>. HIDE DEF r
<1>. QED
  BY <1>2, <1>4, CallStepKeeps

LEMMA SpawnEndKeeps ==
  ASSUME IInv, NEW c \in Caller, SpawnEnd(c)
  PROVE  IInv'
<1>. DEFINE r == [call[c] EXCEPT !.at = "cascade"]
<1>1. call[c] \in Calls
  BY DEF IInv, TypeOK
<1>2. r \in Calls /\ r.at = "cascade" /\ r.removed = call[c].removed
  BY <1>1 DEF Calls
<1>3. CallStep(c, r)
  BY <1>2 DEF SpawnEnd, CallStep
<1>. HIDE DEF r
<1>. QED
  BY <1>2, <1>3, CallStepKeeps

(* A kill prunes what it removed.                                          *)
LEMMA PruneKeeps ==
  ASSUME IInv, NEW c \in Caller, Prune(c)
  PROVE  IInv'
<1>1. TypeOK /\ call[c] \in Calls
  BY DEF IInv, TypeOK
<1>2. CASE call[c].removed = {}
  <2>1. Idle \in Calls /\ Idle.at = "idle" /\ Idle.removed = {}
    BY DEF Idle, Calls
  <2>2. CallStep(c, Idle)
    BY <1>2, <2>1 DEF Prune, CallStep
  <2>. QED
    BY <2>1, <2>2, CallStepKeeps
<1>3. CASE call[c].removed # {}
  <2>. DEFINE R == call[c].removed
  <2>1. /\ call' = [call EXCEPT ![c].at = "cascade"] /\ pub' = Pruned(pub, R)
        /\ alive' = alive /\ used' = used /\ cas' = cas /\ call[c].at = "remove"
    BY <1>3 DEF Prune
  <2>2. R \subseteq Node /\ R \cap alive = {}
    BY <1>1 DEF Calls, IInv, RemovedAreDead, TypeOK
  <2>3. pub' \in Maps /\ Placed(pub') = Placed(pub) \ R /\ Forest(pub')
    BY <1>1, <2>1, <2>2, PruneKeepsForest DEF IInv, TypeOK, PublishedForest
  <2>4. [call[c] EXCEPT !.at = "cascade"] \in Calls
    BY <1>1 DEF Calls
  <2>5. TypeOK'
    BY <1>1, <2>1, <2>3, <2>4 DEF TypeOK
  <2>6. \A d \in Caller : /\ call'[d].removed = call[d].removed
                          /\ d # c => call'[d] = call[d]
                          /\ d = c => call'[d].at = "cascade"
    BY <1>1, <2>1 DEF TypeOK, Calls
  <2>7. CallsInOrder' /\ RunningCascade' /\ OldIdsOnly' /\ RemovedAreDead'
    <3>1. CallsInOrder
      BY DEF IInv
    <3>. QED
      BY <2>1, <2>3, <2>6, <3>1
         DEF IInv, CallsInOrder, RunningCascade, OldIdsOnly, RemovedAreDead, Placed
  <2>8. LateKillsFollow'
    BY <2>1, <2>6 DEF IInv, LateKillsFollow
  <2>9. NewNodesFollow'
    BY <2>6 DEF NewNodesFollow
  <2>10. WholeInTheEnd'
    BY <2>6 DEF WholeInTheEnd
  <2>11. DeadNodesLeaveTheMaps'
    BY <2>1, <2>3, <2>6 DEF IInv, DeadNodesLeaveTheMaps, Placed
  <2>. QED
    BY <2>3, <2>5, <2>7, <2>8, <2>9, <2>10, <2>11 DEF IInv, PublishedForest, Forest, Placed
<1>. QED
  BY <1>2, <1>3

(* A kill's cascade finds nothing alive.                                   *)
LEMMA EmptyCallCascadeKeeps ==
  ASSUME IInv, NEW c \in Caller, EmptyCallCascade(c)
  PROVE  IInv'
<1>1. /\ call[c].at = "cascade" /\ cas.by = Nobody /\ alive = {} /\ alive' = {}
      /\ call' = [call EXCEPT ![c] = Idle] /\ used' = used /\ pub' = pub /\ cas' = cas
  BY DEF EmptyCallCascade
<1>2. TypeOK /\ CallsInOrder
  BY DEF IInv
<1>3. Idle \in Calls /\ Idle.at = "idle" /\ Idle.removed = {}
  BY DEF Idle, Calls
<1>4. TypeOK'
  BY <1>1, <1>2, <1>3 DEF TypeOK
<1>5. call'[c] = Idle /\ \A d \in Caller \ {c} : call'[d] = call[d]
  BY <1>1, <1>2 DEF TypeOK
<1>6. CallsInOrder'
  BY <1>1, <1>2, <1>3, <1>5, CallerAssumption DEF CallsInOrder
<1>7. /\ RunningCascade' /\ OldIdsOnly' /\ LateKillsFollow'
      /\ NewNodesFollow' /\ WholeInTheEnd' /\ DeadNodesLeaveTheMaps'
  BY <1>1 DEF IInv, RunningCascade, OldIdsOnly, LateKillsFollow,
              NewNodesFollow, WholeInTheEnd, DeadNodesLeaveTheMaps, Placed
<1>9. RemovedAreDead'
  BY <1>1, <1>3, <1>5 DEF IInv, RemovedAreDead
<1>8. PublishedForest'
  BY <1>1 DEF IInv, PublishedForest, Forest, Placed
<1>. QED
  BY <1>4, <1>6, <1>7, <1>8, <1>9 DEF IInv

(* A kill removes one node.                                                *)
LEMMA RemoveKeeps ==
  ASSUME IInv, NEW c \in Caller, Remove(c)
  PROVE  IInv'
<1>1. PICK n \in call[c].todo :
        /\ alive' = alive \ {n}
        /\ call' = [call EXCEPT ![c].todo = @ \ {n}, ![c].removed = @ \cup ({n} \cap alive)]
  BY DEF Remove
<1>2. call[c].at = "remove" /\ used' = used /\ pub' = pub /\ cas' = cas
  BY DEF Remove
<1>3. TypeOK /\ call[c] \in Calls /\ alive \subseteq Node
  BY DEF IInv, TypeOK
<1>. DEFINE r == [call[c] EXCEPT !.todo = @ \ {n}, !.removed = @ \cup ({n} \cap alive)]
<1>4. r \in Calls /\ r.at = "remove" /\ r.removed = call[c].removed \cup ({n} \cap alive)
  BY <1>2, <1>3 DEF Calls
<1>5. call' = [call EXCEPT ![c] = r]
  BY <1>1, <1>3 DEF TypeOK, Calls
<1>. HIDE DEF r
<1>6. TypeOK'
  <2>1. alive' \subseteq used
    BY <1>1, <1>3 DEF TypeOK
  <2>. QED
    BY <1>2, <1>3, <1>4, <1>5, <2>1 DEF TypeOK
<1>7. call'[c] = r /\ \A d \in Caller \ {c} : call'[d] = call[d]
  BY <1>3, <1>5 DEF TypeOK
<1>8. \A d \in Caller : /\ call'[d].at = call[d].at
                        /\ call[d].removed \subseteq call'[d].removed
                        /\ call'[d].removed \subseteq call[d].removed \cup {n}
                        /\ call'[d].at # "remove" => call'[d].removed = call[d].removed
  BY <1>2, <1>4, <1>7
<1>9. n \in alive => n \in call'[c].removed /\ call'[c].at = "remove"
  BY <1>4, <1>7
<1>10. CallsInOrder'
  BY <1>2, <1>8 DEF IInv, CallsInOrder
<1>11. RunningCascade' /\ OldIdsOnly'
  BY <1>2 DEF IInv, RunningCascade, OldIdsOnly, Placed
<1>16. RemovedAreDead'
  <2>1. \A d \in Caller : call[d].removed \subseteq used \ alive
    BY DEF IInv, RemovedAreDead
  <2>2. ASSUME NEW d \in Caller PROVE call'[d].removed \subseteq used' \ alive'
    <3>1. CASE d = c
      <4>1. call'[c].removed = call[c].removed \cup ({n} \cap alive)
        BY <1>4, <1>7
      <4>2. alive \subseteq used /\ call[c].removed \subseteq used \ alive
        BY <1>3, <2>1 DEF TypeOK
      <4>3. alive' = alive \ {n} /\ used' = used
        BY <1>1, <1>2
      <4>. QED
        BY <3>1, <4>1, <4>2, <4>3
    <3>2. CASE d # c
      BY <1>1, <1>2, <1>7, <2>1, <3>2
    <3>. QED
      BY <3>1, <3>2
  <2>. QED
    BY <2>2 DEF RemovedAreDead
<1>12. LateKillsFollow'
  <2>. SUFFICES ASSUME cas.by # Nobody, NEW m \in Node \ alive', cas.rank[m] # 0
                PROVE  \E d \in Caller : m \in call'[d].removed /\ call'[d].at \in {"remove", "cascade"}
    BY <1>2 DEF LateKillsFollow
  <2>1. CASE m \in alive
    BY <1>1, <1>9, <2>1
  <2>2. CASE m \notin alive
    <3>1. PICK d \in Caller : m \in call[d].removed /\ call[d].at \in {"remove", "cascade"}
      BY <2>2 DEF IInv, LateKillsFollow
    <3>. QED
      BY <1>8, <3>1
  <2>. QED
    BY <2>1, <2>2
<1>13. NewNodesFollow' /\ WholeInTheEnd'
  BY <1>1, <1>2, <1>8 DEF IInv, NewNodesFollow, WholeInTheEnd, Whole, Placed
<1>14. DeadNodesLeaveTheMaps'
  <2>. SUFFICES ASSUME Placed(pub) \cap alive # {}, NEW m \in Placed(pub) \ alive'
                PROVE  \E d \in Caller : m \in call'[d].removed
    BY <1>1, <1>2 DEF DeadNodesLeaveTheMaps, Placed
  <2>1. CASE m \in alive
    BY <1>1, <1>9, <2>1
  <2>2. CASE m \notin alive
    BY <1>8, <2>2 DEF IInv, DeadNodesLeaveTheMaps
  <2>. QED
    BY <2>1, <2>2
<1>15. PublishedForest'
  BY <1>2 DEF IInv, PublishedForest, Forest, Placed
<1>. QED
  BY <1>6, <1>10, <1>11, <1>12, <1>13, <1>14, <1>15, <1>16 DEF IInv

(* A spawn adds one node.                                                  *)
LEMMA SpawnOneKeeps ==
  ASSUME IInv, NEW c \in Caller, SpawnOne(c)
  PROVE  IInv'
<1>1. PICK n \in Node \ used : alive' = alive \cup {n} /\ used' = used \cup {n}
  BY DEF SpawnOne
<1>2. /\ call[c].at = "spawn" /\ call[c].left > 0 /\ pub' = pub /\ cas' = cas
      /\ call' = [call EXCEPT ![c].left = @ - 1]
  BY DEF SpawnOne
<1>3. TypeOK /\ call[c] \in Calls /\ alive \subseteq used /\ used \subseteq Node
  BY DEF IInv, TypeOK
<1>. DEFINE r == [call[c] EXCEPT !.left = @ - 1]
<1>4. r \in Calls /\ r.at = "spawn" /\ r.removed = call[c].removed
  BY <1>2, <1>3 DEF Calls
<1>5. call' = [call EXCEPT ![c] = r]
  BY <1>2, <1>3 DEF TypeOK, Calls
<1>. HIDE DEF r
<1>6. TypeOK'
  BY <1>1, <1>2, <1>3, <1>4, <1>5 DEF TypeOK
<1>7. \A d \in Caller : call'[d].at = call[d].at /\ call'[d].removed = call[d].removed
  BY <1>2, <1>3, <1>4, <1>5 DEF TypeOK
<1>8. call'[c].at = "spawn"
  BY <1>2, <1>7
<1>9. CallsInOrder' /\ RunningCascade' /\ OldIdsOnly'
  BY <1>1, <1>2, <1>7 DEF IInv, CallsInOrder, RunningCascade, OldIdsOnly, Placed
<1>10. RemovedAreDead'
  <2>1. \A d \in Caller : call[d].removed \subseteq used \ alive
    BY DEF IInv, RemovedAreDead
  <2>. QED
    BY <1>1, <1>7, <2>1 DEF RemovedAreDead
<1>11. LateKillsFollow'
  BY <1>1, <1>2, <1>7 DEF IInv, LateKillsFollow
<1>12. NewNodesFollow' /\ WholeInTheEnd'
  BY <1>8 DEF NewNodesFollow, WholeInTheEnd
<1>13. DeadNodesLeaveTheMaps'
  <2>1. n \notin Placed(pub)
    BY <1>1 DEF IInv, OldIdsOnly
  <2>. QED
    BY <1>1, <1>2, <1>7, <2>1 DEF IInv, DeadNodesLeaveTheMaps, Placed
<1>14. PublishedForest'
  BY <1>2 DEF IInv, PublishedForest, Forest, Placed
<1>. QED
  BY <1>6, <1>9, <1>10, <1>11, <1>12, <1>13, <1>14 DEF IInv
-----------------------------------------------------------------------------
(* Every step keeps the invariant.                                         *)
LEMMA NextKeeps == IInv /\ [Next]_vars => IInv'
<1>. SUFFICES ASSUME IInv, [Next]_vars PROVE IInv'
  OBVIOUS
<1>1. CASE Publish
  BY <1>1, PublishKeeps
<1>2. CASE JoinCascade
  BY <1>2, TakeKeeps
<1>3. CASE UNCHANGED vars
  BY <1>3 DEF vars, IInv, TypeOK, CallsInOrder, RunningCascade, OldIdsOnly, RemovedAreDead,
              LateKillsFollow, NewNodesFollow, WholeInTheEnd, Whole, DeadNodesLeaveTheMaps,
              PublishedForest, Forest, Placed
<1>4. CASE EmptyJoinCascade
  BY <1>3, <1>4 DEF EmptyJoinCascade
<1>5. ASSUME NEW c \in Caller, CallCascade(c) PROVE IInv'
  BY <1>5, TakeKeeps
<1>6. ASSUME NEW c \in Caller, EmptyCallCascade(c) PROVE IInv'
  BY <1>6, EmptyCallCascadeKeeps
<1>7. ASSUME NEW c \in Caller, NEW x \in ExcludeRoot, Select(c, x) PROVE IInv'
  BY <1>7, SelectKeeps, RequestAssumption
<1>8. ASSUME NEW c \in Caller, Remove(c) PROVE IInv'
  BY <1>8, RemoveKeeps
<1>9. ASSUME NEW c \in Caller, Prune(c) PROVE IInv'
  BY <1>9, PruneKeeps
<1>10. ASSUME NEW c \in Caller, SpawnBegin(c) PROVE IInv'
  BY <1>10, SpawnBeginKeeps
<1>11. ASSUME NEW c \in Caller, SpawnOne(c) PROVE IInv'
  BY <1>11, SpawnOneKeeps
<1>12. ASSUME NEW c \in Caller, SpawnEnd(c) PROVE IInv'
  BY <1>12, SpawnEndKeeps
<1>. QED
  BY <1>1, <1>2, <1>3, <1>4, <1>5, <1>6, <1>7, <1>8, <1>9, <1>10, <1>11, <1>12 DEF Next

LEMMA Invariance == Spec => []IInv
BY InitHolds, NextKeeps, PTL DEF Spec

(* What the inductive invariant says of a quiet system.                    *)
LEMMA QuietFollows == IInv => QuietMapsMatchTheMesh
<1>. SUFFICES ASSUME IInv, Quiet, alive # {}
              PROVE  /\ Placed(pub) = alive
                     /\ Cardinality(PublishedRoot) = 1
                     /\ \A n \in alive \ PublishedRoot : pub.parent[n] \in alive
  BY DEF QuietMapsMatchTheMesh
<1>1. cas.by = Nobody /\ \A c \in Caller : call[c].at = "idle" /\ call[c].removed = {}
  BY DEF Quiet, IInv, CallsInOrder
<1>2. alive \subseteq Placed(pub)
  BY <1>1 DEF IInv, NewNodesFollow
<1>3. Placed(pub) = alive
  BY <1>1, <1>2 DEF IInv, DeadNodesLeaveTheMaps
<1>4. Whole(pub)
  BY <1>1 DEF IInv, WholeInTheEnd
<1>5. Cardinality(PublishedRoot) = 1
  BY <1>4, FS_Singleton DEF Whole, PublishedRoot
<1>6. \A n \in alive \ PublishedRoot : pub.parent[n] \in alive
  BY <1>3, <1>4 DEF Whole, PublishedRoot, Placed
<1>. QED
  BY <1>3, <1>5, <1>6

(* The variables keep their types, and no id is spawned twice.             *)
THEOREM MutationTypes == Spec => []TypeOK
<1>1. IInv => TypeOK
  BY DEF IInv
<1>. QED
  BY <1>1, Invariance, PTL

(* When KillNodes returns the maps no longer name the nodes it removed,    *)
(* whatever ran beside it, or they name removed nodes only.                *)
THEOREM KilledNodesLeave == Spec => []DeadNodesLeaveTheMaps
<1>1. IInv => DeadNodesLeaveTheMaps
  BY DEF IInv
<1>. QED
  BY <1>1, Invariance, PTL

(* Prunes and late publications keep the maps a forest that can be climbed.*)
THEOREM MapsStayAForest == Spec => []PublishedForest
<1>1. IInv => PublishedForest
  BY DEF IInv
<1>. QED
  BY <1>1, Invariance, PTL

(* Once every request has returned and no cascade runs, the maps are one   *)
(* tree of just the live nodes.                                            *)
THEOREM QuietMapsAreTheTree == Spec => []QuietMapsMatchTheMesh
<1>. QED
  BY QuietFollows, Invariance, PTL
=============================================================================
