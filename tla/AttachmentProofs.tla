--------------------------- MODULE AttachmentProofs ---------------------------
(***************************************************************************)
(* What TLAPS proves about Attachment, for any number of nodes, any Y and  *)
(* N, any number of cascades and of kills: once things are quiet, only a   *)
(* late hint or the cooldown has led a node off the tree, and none is left *)
(* in transition; and an orphan has a cascade to come to it.               *)
(*                                                                         *)
(* While kills are owed their cascades nothing is claimed of the managers: *)
(* the next sync writes them all.  When none is, no node has died since    *)
(* the latest cascade began, so that the tree is one of the nodes that are *)
(* alive, and what a node's turn wrote is right from then on, unless a     *)
(* hint of an older tree leads the node astray.                            *)
(***************************************************************************)
EXTENDS Attachment, FiniteSetTheorems, FunctionTheorems, WellFoundedInduction, TLAPS

(* The sync's own places.                                                  *)
SyncInOrder ==
  /\ sync.at # "sync" => sync.todo = {}
  /\ sync.at = "idle" => sync.moved = {}
  /\ sync.todo \cap sync.moved = {}
  /\ \A n \in sync.moved : sync.map[n] # NoNode
  /\ sync.sent # NoNode => sync.at = "emit" /\ sync.sent \in sync.moved

(* Kills that are owed a cascade are of nodes that are gone; when none is, *)
(* the tree is one of the nodes that are left, and the sync works on it.   *)
KillsAreOwed ==
  /\ owed <= Cardinality(Node \ alive) /\ Cardinality(Node \ alive) <= MaxKills
  /\ owed = 0 =>
       /\ rank \in Rankings(alive)
       /\ sync.todo \subseteq alive /\ sync.moved \subseteq alive
       /\ sync.at # "idle" => sync.rank = rank

(* Nobody has heard of a later tree than the latest; and the hints of a    *)
(* tree go out when all its turns are over.                                *)
NothingIsAhead ==
  /\ \A n \in Node : mgr[n].rev <= revision
  /\ \A h \in hints : h.revision <= revision /\ (sync.at = "sync" => h.revision < revision)
  /\ \A n \in Node : handler[n] # NoHint =>
       handler[n].revision <= revision /\ (sync.at = "sync" => handler[n].revision < revision)

(* What a node's turn has left.                                            *)
TurnsAreRight ==
  owed = 0 => \A n \in alive \ sync.todo :
    /\ mgr[n].rev = revision
    /\ sync.at # "idle" /\ (n \in sync.moved \/ n \notin astray) => sync.map[n] = Parent(rank, n)
    /\ n \notin astray =>
         /\ mgr[n].leader = Parent(rank, n) /\ mgr[n].state # "disconnected"
         /\ sync.at # "sync" => connected[n] = Parent(rank, n)

(* A hint of the latest tree names the parent, so that a node that acts on *)
(* one had been led astray before it came.                                 *)
HintsAreRight ==
  owed = 0 =>
    /\ \A h \in hints : h.revision = revision => h.target = Parent(rank, h.to)
    /\ \A n \in alive : handler[n] # NoHint /\ handler[n].revision = revision => n \in astray

(* Somebody will end a node's transition: its own goroutine, or the sync.  *)
TransitionsEnd ==
  owed = 0 => \A n \in alive : mgr[n].state = "transitioning" =>
    handler[n] # NoHint \/ n \in sync.todo \cup sync.moved

IInv ==
  /\ TypeOK /\ SyncInOrder /\ KillsAreOwed /\ NothingIsAhead
  /\ TurnsAreRight /\ HintsAreRight /\ TransitionsEnd
-----------------------------------------------------------------------------
(* The tree a ranking gives: a parent has the smaller rank.                *)

(* Division with remainder.                                                *)
LEMMA Division ==
  ASSUME NEW a \in Nat, NEW b \in Nat \ {0}
  PROVE  a \div b \in Nat /\ a % b \in 0 .. (b - 1) /\ a = b * (a \div b) + (a % b)
BY SMT

(* The a-th and later leaders of a queue that grows by Y of every Y + N    *)
(* ranks stay ahead of the ranks they take.                                *)
LEMMA QueueStaysAhead ==
  ASSUME NEW a \in Nat, NEW b \in Nat, NEW M \in Nat, M > Y
  PROVE  a * M + b < (Y * a + b + 1) * M
<1>. Y \in Nat /\ Y >= 1
  BY CapacityAssumption
<1>1. a <= Y * a
  BY SMT
<1>2. a * M <= (Y * a) * M
  BY <1>1, SMT
<1>3. b + 1 <= (b + 1) * M
  BY SMT
<1>4. (Y * a + b + 1) * M = (Y * a) * M + (b + 1) * M
  BY SMT
<1>. QED
  BY <1>2, <1>3, <1>4, SMT

(* The closed form of the tree: the parent of rank i > 1 comes before it.  *)
LEMMA ParentRankBelow ==
  ASSUME NEW i \in Nat, i > 1
  PROVE  ParentRank(i) \in 1 .. (i - 1)
<1>. DEFINE M == Y + N
            g == (i - 2) \div M
<1>1. M \in Nat \ {0} /\ M > Y /\ Y \in Nat \ {0} /\ i - 2 \in Nat
  BY CapacityAssumption
<1>2. g \in Nat /\ (i - 2) % M \in 0 .. (M - 1) /\ i - 2 = M * g + ((i - 2) % M)
  <2>. HIDE DEF M
  <2>. QED BY <1>1, Division
<1>3. GroupOf(i) = g
  BY DEF GroupOf
<1>4. CASE g = 0
  BY <1>3, <1>4 DEF ParentRank, QueueRank
<1>5. CASE g # 0
  <2>. DEFINE a == (g - 1) \div Y
              b == (g - 1) % Y
  <2>1. a \in Nat /\ b \in 0 .. (Y - 1) /\ g - 1 = Y * a + b
    <3>1. g - 1 \in Nat
      BY <1>2, <1>5
    <3>. HIDE DEF g
    <3>. QED BY <1>1, <3>1, Division
  <2>2. ParentRank(i) = 2 + a * M + b
    BY <1>3, <1>5 DEF ParentRank, QueueRank
  <2>3. a * M + b < (Y * a + b + 1) * M
    <3>1. b \in Nat
      BY <2>1, <1>1
    <3>. HIDE DEF a, b, M
    <3>. QED BY <1>1, <2>1, <3>1, QueueStaysAhead
  <2>4. (Y * a + b + 1) * M = M * g
    <3>1. Y * a + b + 1 = g
      BY <1>1, <1>2, <2>1, SMT
    <3>. HIDE DEF a, b, g, M
    <3>. QED BY <1>1, <1>2, <3>1, SMT
  <2>5. a * M \in Nat
    BY <1>1, <2>1, SMT
  <2>. HIDE DEF a, b, g, M
  <2>. QED
    BY <1>1, <1>2, <2>1, <2>2, <2>3, <2>4, <2>5, SMT
<1>. QED
  BY <1>4, <1>5
-----------------------------------------------------------------------------
(* ... and no level is above the root's.                                   *)
LEMMA LeastNumber ==
  ASSUME NEW S \in SUBSET Nat, S # {}
  PROVE  \E n \in S : \A m \in S : n <= m
<1>. DEFINE U == {0 .. n : n \in S}
<1>1. U \subseteq FiniteSubsetsOf(Nat) /\ U # {}
  <2>1. \A n \in S : IsFiniteSet(0 .. n) /\ 0 .. n \in SUBSET Nat
    BY FS_Interval
  <2>. QED
    BY <2>1 DEF FiniteSubsetsOf
<1>2. \E x \in U : \A y \in U : ~(<<y, x>> \in StrictSubsetOrdering(Nat))
  <2>. HIDE DEF U
  <2>. QED
    BY <1>1, FS_StrictSubsetOrderingWellFounded, WFMin
<1>3. PICK n \in S : \A m \in S : ~(<<0 .. m, 0 .. n>> \in StrictSubsetOrdering(Nat))
  BY <1>2
<1>4. ASSUME NEW m \in S, m < n
      PROVE  FALSE
  <2>. DEFINE a == 0 .. m
              b == 0 .. n
  <2>1. n \in Nat /\ m \in Nat
    OBVIOUS
  <2>2. a \in SUBSET Nat /\ b \in SUBSET Nat /\ a \subseteq b /\ a # b
    <3>1. n \in b /\ n \notin a
      BY <1>4, <2>1
    <3>. QED
      BY <1>4, <2>1, <3>1
  <2>3. ~(<<a, b>> \in StrictSubsetOrdering(Nat))
    BY <1>3
  <2>. HIDE DEF a, b
  <2>. QED
    BY <2>2, <2>3 DEF StrictSubsetOrdering
<1>. QED
  BY <1>3, <1>4

LEMMA DivisionBounds ==
  ASSUME NEW a \in Nat, NEW b \in Nat \ {0}
  PROVE  a \div b \in 0 .. a
BY SMT

DepthOn(m, f) == f = [k \in 0 .. m |-> IF k = 0 THEN 0 ELSE f[(k - 1) \div Y] + 1]

(* The recursion that QueueLevel stands for has a solution: by the least   *)
(* bound for which it would not.                                           *)
LEMMA DepthExists ==
  ASSUME NEW m \in Nat
  PROVE  \E f : DepthOn(m, f)
<1>. DEFINE Bad == {n \in Nat : ~ \E f : DepthOn(n, f)}
<1>1. SUFFICES ASSUME Bad # {} PROVE FALSE
  OBVIOUS
<1>2. PICK n \in Bad : \A k \in Bad : n <= k
  BY <1>1, LeastNumber
<1>3. n # 0
  <2>1. DepthOn(0, [k \in 0 .. 0 |-> 0])
    BY DEF DepthOn
  <2>. QED BY <2>1
<1>4. PICK f : DepthOn(n - 1, f)
  <2>1. n - 1 \in Nat /\ n - 1 \notin Bad
    BY <1>2, <1>3
  <2>. QED BY <2>1
<1>. DEFINE g == [k \in 0 .. n |-> IF k < n THEN f[k] ELSE f[(n - 1) \div Y] + 1]
<1>5. ASSUME NEW k \in 0 .. n
      PROVE  g[k] = IF k = 0 THEN 0 ELSE g[(k - 1) \div Y] + 1
  <2>1. CASE k = 0
    BY <1>3, <1>4, <2>1 DEF DepthOn
  <2>2. CASE k # 0
    <3>1. (k - 1) \div Y \in 0 .. (k - 1)
      <4>1. k - 1 \in Nat
        BY <2>2
      <4>. QED
        BY <4>1, CapacityAssumption, DivisionBounds
    <3>2. (k - 1) \div Y \in 0 .. n /\ (k - 1) \div Y < n
      BY <3>1
    <3>3. g[(k - 1) \div Y] = f[(k - 1) \div Y]
      BY <3>2
    <3>4. CASE k = n
      BY <2>2, <3>3, <3>4
    <3>5. CASE k < n
      <4>1. f[k] = f[(k - 1) \div Y] + 1
        <5>1. k \in 0 .. (n - 1)
          BY <3>5
        <5>. QED
          BY <1>4, <2>2, <5>1 DEF DepthOn
      <4>. QED
        BY <2>2, <3>3, <3>5, <4>1
    <3>. QED
      BY <3>4, <3>5
  <2>. QED BY <2>1, <2>2
<1>6. DepthOn(n, g)
  <2>1. g = [k \in 0 .. n |-> g[k]]
    OBVIOUS
  <2>. HIDE DEF g
  <2>. QED
    BY <1>5, <2>1 DEF DepthOn
<1>. QED
  BY <1>6

(* No leader is deeper than its place in the queue.                        *)
LEMMA QueueLevelBounds ==
  ASSUME NEW m \in Nat
  PROVE  QueueLevel(m)[m] \in 0 .. m
<1>1. DepthOn(m, QueueLevel(m))
  BY DepthExists DEF QueueLevel, DepthOn
<1>. DEFINE f == QueueLevel(m)
            Bad == {k \in 0 .. m : f[k] \notin 0 .. k}
<1>2. \A k \in 0 .. m : f[k] = IF k = 0 THEN 0 ELSE f[(k - 1) \div Y] + 1
  BY <1>1 DEF DepthOn
<1>3. ASSUME Bad # {}
      PROVE  FALSE
  <2>. HIDE DEF f
  <2>1. PICK k \in Bad : \A j \in Bad : k <= j
    <3>1. Bad \in SUBSET Nat
      OBVIOUS
    <3>. HIDE DEF Bad
    <3>. QED BY <1>3, <3>1, LeastNumber
  <2>2. k # 0
    BY <1>2
  <2>3. (k - 1) \div Y \in 0 .. (k - 1)
    <3>1. k - 1 \in Nat
      BY <2>2
    <3>. QED
      BY <3>1, CapacityAssumption, DivisionBounds
  <2>4. f[(k - 1) \div Y] \in 0 .. ((k - 1) \div Y)
    BY <2>1, <2>3
  <2>. QED
    BY <1>2, <2>1, <2>2, <2>3, <2>4
<1>. QED
  BY <1>3

LEMMA LevelAtRankBounds ==
  ASSUME NEW i \in Nat \ {0}
  PROVE  LevelAtRank(i) \in 0 .. (i - 1)
<1>1. CASE i = 1
  BY <1>1 DEF LevelAtRank
<1>2. CASE i # 1
  <2>. DEFINE g == GroupOf(i)
  <2>1. i - 2 \in Nat /\ Y + N \in Nat \ {0}
    BY <1>2, CapacityAssumption
  <2>2. g \in 0 .. (i - 2)
    BY <2>1, DivisionBounds DEF GroupOf
  <2>3. QueueLevel(g)[g] \in 0 .. g
    <3>. HIDE DEF g
    <3>. QED BY <2>1, <2>2, QueueLevelBounds
  <2>4. LevelAtRank(i) \in {QueueLevel(g)[g], QueueLevel(g)[g] + 1}
    BY <1>2, <2>3 DEF LevelAtRank
  <2>. HIDE DEF g
  <2>. QED BY <2>1, <2>2, <2>3, <2>4
<1>. QED BY <1>1, <1>2
-----------------------------------------------------------------------------
(* What a cascade ranks: the nodes it has found, one after the other.      *)
LEMMA RankingFacts ==
  ASSUME NEW S, S \subseteq Node, NEW r \in Rankings(S)
  PROVE  /\ r \in [Node -> 0 .. Cardinality(Node)]
         /\ \A n \in Node : r[n] # 0 <=> n \in S
         /\ \A n \in S : \A i \in 1 .. r[n] : \E m \in S : r[m] = i
<1>1. IsFiniteSet(S) /\ Cardinality(S) <= Cardinality(Node)
  BY NodeAssumption, FS_Subset
<1>2. Cardinality(S) \in Nat /\ Cardinality(Node) \in Nat
  BY <1>1, NodeAssumption, FS_CardinalityType
<1>3. PICK f \in Bijection(S, 1 .. Cardinality(S)) :
        r = [n \in Node |-> IF n \in S THEN f[n] ELSE 0]
  BY DEF Rankings
<1>4. /\ f \in [S -> 1 .. Cardinality(S)]
      /\ \A i \in 1 .. Cardinality(S) : \E n \in S : f[n] = i
  BY DEF Bijection, Injection, Surjection
<1>5. \A n \in S : r[n] = f[n] /\ r[n] \in 1 .. Cardinality(S)
  BY <1>3, <1>4
<1>6. \A n \in Node : r[n] # 0 <=> n \in S
  <2>. TAKE n \in Node
  <2>1. CASE n \in S
    BY <1>2, <1>5, <2>1
  <2>2. CASE n \notin S
    BY <1>3, <2>2
  <2>. QED
    BY <2>1, <2>2
<1>7. r \in [Node -> 0 .. Cardinality(Node)]
  <2>1. \A n \in Node : r[n] \in 0 .. Cardinality(Node)
    <3>. TAKE n \in Node
    <3>1. CASE n \in S
      BY <1>1, <1>2, <1>5, <3>1
    <3>2. CASE n \notin S
      BY <1>2, <1>3, <3>2
    <3>. QED BY <3>1, <3>2
  <2>2. r = [n \in Node |-> r[n]]
    BY <1>3
  <2>. QED BY <2>1, <2>2
<1>8. \A n \in S : \A i \in 1 .. r[n] : \E m \in S : r[m] = i
  <2>. TAKE n \in S
  <2>. TAKE i \in 1 .. r[n]
  <2>1. i \in 1 .. Cardinality(S)
    BY <1>2, <1>5
  <2>. QED BY <1>4, <1>5, <2>1
<1>. QED BY <1>6, <1>7, <1>8

(* Every node of the tree but the root has its parent in it.               *)
LEMMA ParentOfRanked ==
  ASSUME NEW S, S \subseteq Node, NEW r \in Rankings(S), NEW n \in S
  PROVE  /\ r[n] > 1 => Parent(r, n) \in S
         /\ r[n] = 1 => Parent(r, n) = NoNode /\ UpperLeader(r, n) = NoNode
         /\ r[n] \in Nat /\ r[n] >= 1
<1>1. /\ r[n] \in Nat \ {0} /\ \A m \in Node : r[m] # 0 <=> m \in S
      /\ \A m \in Node : r[m] \in Nat
      /\ \A i \in 1 .. r[n] : \E m \in S : r[m] = i
  <2>1. Cardinality(Node) \in Nat
    BY NodeAssumption, FS_CardinalityType
  <2>. QED BY <2>1, RankingFacts
<1>2. ASSUME r[n] > 1
      PROVE  Parent(r, n) \in S
  <2>1. ParentRank(r[n]) \in 1 .. (r[n] - 1)
    BY <1>1, <1>2, ParentRankBelow
  <2>2. PICK m \in S : r[m] = ParentRank(r[n])
    BY <1>1, <2>1
  <2>3. PICK parents : parents = {p \in Node : r[n] > 1 /\ r[p] = ParentRank(r[n])}
    OBVIOUS
  <2>4. m \in parents
    BY <1>2, <2>2, <2>3
  <2>5. parents \subseteq S
    BY <1>1, <2>1, <2>3
  <2>6. Parent(r, n) \in parents
    BY <2>3, <2>4 DEF Parent
  <2>. QED BY <2>5, <2>6
<1>3. ASSUME r[n] = 1
      PROVE  Parent(r, n) = NoNode
  BY <1>3 DEF Parent
<1>4. ASSUME r[n] = 1
      PROVE  UpperLeader(r, n) = NoNode
  <2>1. LevelAtRank(r[n]) = 0
    BY <1>4 DEF LevelAtRank
  <2>2. {m \in Node : r[m] # 0 /\ LevelAtRank(r[m]) = LevelAtRank(r[n]) - 1} = {}
    <3>1. ASSUME NEW m \in Node, r[m] # 0
          PROVE  LevelAtRank(r[m]) # 0 - 1
      <4>1. LevelAtRank(r[m]) \in 0 .. (r[m] - 1)
        BY <1>1, <3>1, LevelAtRankBounds
      <4>. QED BY <4>1
    <3>. QED BY <2>1, <3>1
  <2>. QED BY <2>2 DEF UpperLeader
<1>. QED BY <1>1, <1>2, <1>3, <1>4

(* The leader the sync has for a node is its parent, unless a node of the  *)
(* tree has died meanwhile.                                                *)
LEMMA DesiredIsTheParent ==
  ASSUME alive \subseteq Node, sync.rank = rank, rank \in Rankings(alive), NEW n \in alive
  PROVE  /\ Desired(n) = Parent(rank, n)
         /\ Parent(rank, n) \in alive \cup {NoNode}
         /\ Parent(rank, n) = NoNode => rank[n] = 1
<1>1. NoNode \notin alive
  BY NodeAssumption
<1>2. CASE rank[n] > 1
  BY <1>1, <1>2, ParentOfRanked DEF Desired
<1>3. CASE rank[n] = 1
  BY <1>1, <1>3, ParentOfRanked DEF Desired
<1>. QED BY <1>2, <1>3, ParentOfRanked

(* findNearestUpperLeader finds a node or none.                            *)
LEMMA LeadersAreNodes ==
  ASSUME NEW r \in [Node -> 0 .. Cardinality(Node)], NEW n \in Node
  PROVE  Parent(r, n) \in SomeNode /\ UpperLeader(r, n) \in SomeNode
<1>1. Parent(r, n) \in SomeNode
  <2>1. PICK parents : parents = {p \in Node : r[n] > 1 /\ r[p] = ParentRank(r[n])}
    OBVIOUS
  <2>2. parents # {} => Parent(r, n) \in parents
    BY <2>1 DEF Parent
  <2>. QED BY <2>1, <2>2 DEF Parent, SomeNode
<1>2. PICK upper : upper = {m \in Node : r[m] # 0 /\ LevelAtRank(r[m]) = LevelAtRank(r[n]) - 1}
  OBVIOUS
<1>3. UpperLeader(r, n) = IF upper = {} THEN NoNode
                          ELSE CHOOSE u \in upper : \A m \in upper : r[u] <= r[m]
  BY <1>2 DEF UpperLeader
<1>4. ASSUME upper # {}
      PROVE  \E u \in upper : \A m \in upper : r[u] <= r[m]
  <2>. DEFINE ranks == {r[m] : m \in upper}
  <2>1. ranks \in SUBSET Nat /\ ranks # {}
    <3>1. Cardinality(Node) \in Nat
      BY NodeAssumption, FS_CardinalityType
    <3>. QED BY <1>2, <1>4, <3>1
  <2>2. PICK i \in ranks : \A j \in ranks : i <= j
    <3>. HIDE DEF ranks
    <3>. QED BY <2>1, LeastNumber
  <2>3. PICK u \in upper : r[u] = i
    BY <2>2
  <2>. QED BY <2>2, <2>3
<1>5. upper # {} => UpperLeader(r, n) \in upper
  BY <1>3, <1>4
<1>6. UpperLeader(r, n) \in SomeNode
  BY <1>2, <1>3, <1>5 DEF SomeNode
<1>. QED BY <1>1, <1>6
-----------------------------------------------------------------------------
Managers == [leader : SomeNode, state : States, rev : 1 .. MaxRevision]

Syncs ==
  [at : {"idle", "sync", "emit"}, rank : [Node -> 0 .. Cardinality(Node)],
   todo : SUBSET Node, map : [Node -> SomeNode], moved : SUBSET Node, sent : SomeNode]

(* A manager is written.                                                   *)
LEMMA WrittenRecord ==
  ASSUME NEW r \in Managers, NEW leader, NEW state
  PROVE  /\ [r EXCEPT !.state = state] =
              [leader |-> r.leader, state |-> state, rev |-> r.rev]
         /\ [r EXCEPT !.leader = leader, !.state = state] =
              [leader |-> leader, state |-> state, rev |-> r.rev]
<1>1. [r EXCEPT !.state = state] = [leader |-> r.leader, state |-> state, rev |-> r.rev]
  BY DEF Managers
<1>2. PICK q : q = [r EXCEPT !.leader = leader, !.state = state]
  OBVIOUS
<1>3. DOMAIN q = {"leader", "state", "rev"} /\ q = [x \in DOMAIN q |-> q[x]]
  BY <1>2 DEF Managers
<1>4. q.leader = leader /\ q.state = state /\ q.rev = r.rev
  BY <1>2 DEF Managers
<1>5. q = [leader |-> leader, state |-> state, rev |-> r.rev]
  BY <1>3, <1>4
<1>. QED BY <1>1, <1>2, <1>5

(* Managers f are g afterwards, written at node n only.                    *)
WrittenAt(f, g, n, leader, state) ==
  /\ g \in [Node -> Managers] /\ g[n].rev = f[n].rev
  /\ g[n].leader = leader /\ g[n].state = state
  /\ \A m \in Node \ {n} : g[m] = f[m]

LEMMA WrittenState ==
  ASSUME NEW f \in [Node -> Managers], NEW n \in Node, NEW state \in States,
         NEW g, g = [f EXCEPT ![n].state = state]
  PROVE  WrittenAt(f, g, n, f[n].leader, state)
<1>1. PICK r \in Managers : r = f[n]
  OBVIOUS
<1>2. PICK q : q = [r EXCEPT !.state = state]
  OBVIOUS
<1>3. g = [f EXCEPT ![n] = q]
  BY <1>1, <1>2
<1>4. q = [leader |-> r.leader, state |-> state, rev |-> r.rev]
  BY <1>2, WrittenRecord
<1>5. /\ q \in Managers /\ q.rev = r.rev /\ q.leader = r.leader /\ q.state = state
  BY <1>4 DEF Managers
<1>. QED BY <1>1, <1>3, <1>5 DEF WrittenAt

LEMMA WrittenLeader ==
  ASSUME NEW f \in [Node -> Managers], NEW n \in Node, NEW leader \in SomeNode,
         NEW state \in States,
         NEW g, g = [f EXCEPT ![n].leader = leader, ![n].state = state]
  PROVE  WrittenAt(f, g, n, leader, state)
<1>1. PICK r \in Managers : r = f[n]
  OBVIOUS
<1>2. PICK q : q = [r EXCEPT !.leader = leader, !.state = state]
  OBVIOUS
<1>3. g = [f EXCEPT ![n] = q]
  BY <1>1, <1>2
<1>4. q = [leader |-> leader, state |-> state, rev |-> r.rev]
  BY <1>2, WrittenRecord
<1>5. /\ q \in Managers /\ q.rev = r.rev /\ q.leader = leader /\ q.state = state
  BY <1>4 DEF Managers
<1>. QED BY <1>1, <1>3, <1>5 DEF WrittenAt

LEMMA NoSyncType == NoSync \in Syncs
<1>1. NoRank \in [Node -> 0 .. Cardinality(Node)]
  <2>1. Cardinality(Node) \in Nat
    BY NodeAssumption, FS_CardinalityType
  <2>. QED BY <2>1 DEF NoRank
<1>2. NoMap \in [Node -> SomeNode]
  BY DEF NoMap, SomeNode
<1>. QED BY <1>1, <1>2 DEF NoSync, Syncs, SomeNode
-----------------------------------------------------------------------------
LEMMA InitEstablishes == Init => IInv
<1>. SUFFICES ASSUME Init PROVE IInv
  OBVIOUS
<1>1. /\ alive = Node /\ revision = 1 /\ rank \in Rankings(Node)
      /\ mgr = [n \in Node |-> [leader |-> Parent(rank, n), state |-> "connected", rev |-> 1]]
      /\ connected = [n \in Node |-> Parent(rank, n)]
      /\ recent = {} /\ sync = NoSync /\ owed = 0 /\ hints = {}
      /\ handler = [n \in Node |-> NoHint] /\ astray = {}
  BY DEF Init
<1>2. rank \in [Node -> 0 .. Cardinality(Node)]
  BY <1>1, RankingFacts
<1>3. \A n \in Node : Parent(rank, n) \in SomeNode
  BY <1>2, LeadersAreNodes
<1>4. TypeOK
  <2>1. mgr \in [Node -> Managers]
    BY <1>1, <1>3, BoundAssumption DEF Managers, States
  <2>2. sync \in Syncs
    BY <1>1, NoSyncType
  <2>3. handler \in [Node -> [to : SomeNode, target : SomeNode,
                             revision : 0 .. MaxRevision, prev : SomeNode]]
    BY <1>1, BoundAssumption DEF NoHint, SomeNode
  <2>4. connected \in [Node -> SomeNode]
    BY <1>1, <1>3
  <2>5. MaxKills \in Nat /\ MaxRevision \in Nat \ {0}
    <3>1. Cardinality(Node) \in Nat
      BY NodeAssumption, FS_CardinalityType
    <3>. QED BY <3>1, BoundAssumption
  <2>. QED BY <1>1, <1>2, <2>1, <2>2, <2>3, <2>4, <2>5 DEF TypeOK, Managers, Syncs
<1>5. /\ sync.at = "idle" /\ sync.todo = {} /\ sync.moved = {} /\ sync.sent = NoNode
  BY <1>1 DEF NoSync
<1>6. SyncInOrder
  BY <1>5 DEF SyncInOrder
<1>7. KillsAreOwed
  <2>1. Cardinality(Node \ alive) = 0
    <3>1. Node \ alive = {}
      BY <1>1
    <3>. QED BY <3>1, FS_EmptySet
  <2>2. MaxKills >= 0
    BY BoundAssumption
  <2>. QED BY <1>1, <1>5, <2>1, <2>2 DEF KillsAreOwed
<1>8. NothingIsAhead
  BY <1>1 DEF NothingIsAhead
<1>9. TurnsAreRight
  BY <1>1, <1>5 DEF TurnsAreRight
<1>10. HintsAreRight /\ TransitionsEnd
  BY <1>1 DEF HintsAreRight, TransitionsEnd
<1>. QED BY <1>4, <1>6, <1>7, <1>8, <1>9, <1>10 DEF IInv

(* A cascade ranks the nodes it finds, and everybody's turn is to come.    *)
LEMMA CascadePreserves ==
  ASSUME IInv, NEW owing, Cascade(owing), revision < MaxRevision, owed' \in Nat, owed' <= owed
  PROVE  IInv'
<1>1. /\ TypeOK /\ SyncInOrder /\ KillsAreOwed /\ NothingIsAhead
      /\ TurnsAreRight /\ HintsAreRight /\ TransitionsEnd
  BY DEF IInv
<1>2. /\ sync.at = "idle" /\ rank' \in Rankings(alive) /\ revision' = revision + 1
      /\ sync' = [at |-> "sync", rank |-> rank', todo |-> alive, map |-> NoMap, moved |-> {},
                  sent |-> NoNode]
      /\ UNCHANGED <<alive, mgr, connected, recent, hints, handler, astray>>
  BY DEF Cascade, NoSync
<1>3. alive \subseteq Node /\ revision \in Nat /\ owed \in Nat /\ MaxRevision \in Nat
      /\ owed <= MaxKills /\ MaxKills \in Nat
  <2>1. Cardinality(Node) \in Nat
    BY NodeAssumption, FS_CardinalityType
  <2>. QED BY <1>1, <2>1, BoundAssumption DEF TypeOK
<1>4. rank' \in [Node -> 0 .. Cardinality(Node)]
  BY <1>2, <1>3, RankingFacts
<1>5. TypeOK'
  <2>1. NoMap \in [Node -> SomeNode]
    BY DEF NoMap, SomeNode
  <2>2. sync' \in Syncs
    BY <1>2, <1>3, <1>4, <2>1 DEF Syncs, SomeNode
  <2>3. revision' \in 1 .. MaxRevision /\ owed' \in 0 .. MaxKills
    BY <1>2, <1>3
  <2>. QED BY <1>1, <1>2, <1>4, <2>2, <2>3 DEF TypeOK, Syncs
<1>6. SyncInOrder'
  BY <1>2 DEF SyncInOrder
<1>7. KillsAreOwed'
  <2>1. Cardinality(Node \ alive) \in Nat
    BY NodeAssumption, FS_Subset, FS_CardinalityType
  <2>. QED BY <1>1, <1>2, <1>3, <2>1 DEF KillsAreOwed
<1>8. NothingIsAhead'
  <2>1. \A n \in Node : mgr[n].rev \in Int /\ handler[n].revision \in Int
    BY <1>1, <1>3 DEF TypeOK
  <2>2. \A h \in hints : h.revision \in Int
    BY <1>1, <1>3 DEF TypeOK, Hints
  <2>3. \A i \in Int : i <= revision => i <= revision' /\ i < revision'
    BY <1>2, <1>3
  <2>4. \A n \in Node : mgr'[n].rev <= revision'
    BY <1>1, <1>2, <2>1, <2>3 DEF NothingIsAhead
  <2>5. \A h \in hints' : h.revision <= revision' /\ h.revision < revision'
    BY <1>1, <1>2, <2>2, <2>3 DEF NothingIsAhead
  <2>6. \A n \in Node : handler'[n] # NoHint =>
          handler'[n].revision <= revision' /\ handler'[n].revision < revision'
    BY <1>1, <1>2, <2>1, <2>3 DEF NothingIsAhead
  <2>. QED BY <2>4, <2>5, <2>6 DEF NothingIsAhead
<1>9. TurnsAreRight' /\ TransitionsEnd'
  BY <1>2 DEF TurnsAreRight, TransitionsEnd
<1>10. HintsAreRight'
  <2>1. \A h \in hints' : h.revision # revision'
    <3>1. \A h \in hints' : h.revision < revision' /\ h.revision \in Int
      BY <1>1, <1>2, <1>3, <1>8 DEF NothingIsAhead, TypeOK, Hints
    <3>. QED BY <1>2, <1>3, <3>1
  <2>2. \A n \in Node : handler'[n] # NoHint => handler'[n].revision # revision'
    <3>1. \A n \in Node : handler'[n] # NoHint =>
            handler'[n].revision < revision' /\ handler'[n].revision \in Int
      BY <1>1, <1>2, <1>3, <1>8 DEF NothingIsAhead, TypeOK
    <3>. QED BY <1>2, <1>3, <3>1
  <2>. QED BY <1>2, <1>3, <2>1, <2>2 DEF HintsAreRight
<1>. QED BY <1>5, <1>6, <1>7, <1>8, <1>9, <1>10 DEF IInv

LEMMA SyncMapsPreserves ==
  ASSUME IInv, SyncMaps
  PROVE  IInv'
<1>1. /\ TypeOK /\ SyncInOrder /\ KillsAreOwed /\ NothingIsAhead
      /\ TurnsAreRight /\ HintsAreRight /\ TransitionsEnd
  BY DEF IInv
<1>2. sync \in Syncs
  BY <1>1 DEF TypeOK, Syncs
<1>3. /\ sync.at = "sync" /\ sync.todo = {} /\ connected' = sync.map
      /\ UNCHANGED <<alive, revision, rank, mgr, recent, owed, hints, handler, astray>>
      /\ sync' = [sync EXCEPT !.at = "emit"]
  BY DEF SyncMaps
<1>4. sync' = [at |-> "emit", rank |-> sync.rank, todo |-> sync.todo,
               map |-> sync.map, moved |-> sync.moved, sent |-> sync.sent]
  BY <1>2, <1>3 DEF Syncs
<1>5. /\ sync' \in Syncs /\ sync'.at = "emit" /\ sync'.rank = sync.rank /\ sync'.todo = {}
      /\ sync'.map = sync.map /\ sync'.moved = sync.moved /\ sync'.sent = sync.sent
  BY <1>2, <1>3, <1>4 DEF Syncs
<1>6. TypeOK'
  BY <1>1, <1>2, <1>3, <1>5 DEF TypeOK, Syncs
<1>7. SyncInOrder' /\ KillsAreOwed' /\ NothingIsAhead'
  BY <1>1, <1>3, <1>5 DEF SyncInOrder, KillsAreOwed, NothingIsAhead
<1>8. TurnsAreRight'
  BY <1>1, <1>3, <1>5 DEF TurnsAreRight
<1>9. HintsAreRight' /\ TransitionsEnd'
  BY <1>1, <1>3, <1>5 DEF HintsAreRight, TransitionsEnd
<1>. QED BY <1>6, <1>7, <1>8, <1>9 DEF IInv

LEMMA SyncEndPreserves ==
  ASSUME IInv, SyncEnd
  PROVE  IInv'
<1>1. /\ TypeOK /\ SyncInOrder /\ KillsAreOwed /\ NothingIsAhead
      /\ TurnsAreRight /\ HintsAreRight /\ TransitionsEnd
  BY DEF IInv
<1>2. /\ sync.at = "emit" /\ sync.moved = {} /\ sync' = NoSync
      /\ UNCHANGED <<alive, revision, rank, mgr, connected, recent, owed, hints, handler, astray>>
  BY DEF SyncEnd
<1>3. /\ sync' \in Syncs /\ sync'.at = "idle" /\ sync'.todo = {} /\ sync'.moved = {}
      /\ sync'.sent = NoNode
  BY <1>2, NoSyncType DEF NoSync
<1>4. TypeOK'
  BY <1>1, <1>2, <1>3 DEF TypeOK, Syncs
<1>5. SyncInOrder' /\ KillsAreOwed' /\ NothingIsAhead'
  BY <1>1, <1>2, <1>3 DEF SyncInOrder, KillsAreOwed, NothingIsAhead
<1>6. sync.todo = {}
  BY <1>1, <1>2 DEF SyncInOrder
<1>7. TurnsAreRight'
  BY <1>1, <1>2, <1>3, <1>6 DEF TurnsAreRight
<1>8. HintsAreRight' /\ TransitionsEnd'
  BY <1>1, <1>2, <1>3, <1>6 DEF HintsAreRight, TransitionsEnd
<1>. QED BY <1>4, <1>5, <1>7, <1>8 DEF IInv

(* A turn takes effect while the sync is still at it, so that no hint of   *)
(* the latest tree is about.                                               *)
LEMMA SyncNodePreserves ==
  ASSUME IInv, NEW n \in Node, SyncNode(n)
  PROVE  IInv'
<1>1. /\ TypeOK /\ SyncInOrder /\ KillsAreOwed /\ NothingIsAhead
      /\ TurnsAreRight /\ HintsAreRight /\ TransitionsEnd
  BY DEF IInv
<1>2. sync \in Syncs /\ mgr \in [Node -> Managers] /\ revision \in 1 .. MaxRevision
      /\ MaxRevision \in Nat /\ alive \subseteq Node
  BY <1>1, BoundAssumption DEF TypeOK, Syncs, Managers
<1>3. PICK desired : desired = Desired(n)
  OBVIOUS
<1>4. PICK kept \in BOOLEAN : kept = Throttled(n, mgr[n].leader, desired)
  BY DEF Throttled
<1>5. PICK target : target = IF kept THEN mgr[n].leader ELSE desired
  OBVIOUS
<1>6. PICK moved \in BOOLEAN : moved = (target \notin {NoNode, mgr[n].leader})
  OBVIOUS
<1>7. PICK state : state = CASE moved -> "transitioning"
                            [] ~moved /\ (sync.rank[n] = 1 \/ target # NoNode) -> "connected"
                            [] OTHER -> "disconnected"
  OBVIOUS
<1>8. PICK told : told = IF moved THEN sync.moved \cup {n} ELSE sync.moved
  OBVIOUS
<1>9. /\ sync.at = "sync" /\ n \in sync.todo
      /\ mgr' = [mgr EXCEPT ![n] =
                   [leader |-> target, state |-> state,
                    rev |-> IF revision < mgr[n].rev THEN mgr[n].rev ELSE revision]]
      /\ sync' = [sync EXCEPT !.todo = @ \ {n}, !.map[n] = target, !.moved = told]
      /\ astray' = IF kept THEN astray \cup {n} ELSE astray \ {n}
      /\ UNCHANGED <<alive, revision, rank, connected, recent, owed, hints, handler>>
  BY <1>3, <1>4, <1>5, <1>6, <1>7, <1>8 DEF SyncNode
<1>10. target \in SomeNode
  <2>1. desired \in SomeNode
    BY <1>2, <1>3, LeadersAreNodes DEF Desired, Syncs, SomeNode
  <2>2. mgr[n].leader \in SomeNode
    BY <1>2 DEF Managers
  <2>. QED BY <1>5, <2>1, <2>2
<1>11. /\ state \in States /\ (state = "transitioning" => moved)
       /\ state = "disconnected" => sync.rank[n] # 1 /\ target = NoNode
  BY <1>7 DEF States
<1>12. mgr' = [mgr EXCEPT ![n] = [leader |-> target, state |-> state, rev |-> revision]]
  <2>1. ~ (revision < mgr[n].rev)
    <3>1. mgr[n].rev \in Int /\ mgr[n].rev <= revision
      BY <1>1, <1>2 DEF NothingIsAhead, Managers
    <3>. QED BY <1>2, <3>1
  <2>. QED BY <1>9, <2>1
<1>13. /\ mgr' \in [Node -> Managers]
       /\ mgr'[n] = [leader |-> target, state |-> state, rev |-> revision]
       /\ \A m \in Node \ {n} : mgr'[m] = mgr[m]
  BY <1>2, <1>10, <1>11, <1>12 DEF Managers
<1>14. told \in SUBSET Node
  BY <1>2, <1>8 DEF Syncs
<1>15. sync' = [at |-> "sync", rank |-> sync.rank, todo |-> sync.todo \ {n},
                map |-> [sync.map EXCEPT ![n] = target], moved |-> told, sent |-> sync.sent]
  <2>1. PICK q \in Syncs : q = sync
    BY <1>2
  <2>2. PICK t : t = [q EXCEPT !.todo = @ \ {n}, !.map[n] = target, !.moved = told]
    OBVIOUS
  <2>3. /\ t = [x \in {"at", "rank", "todo", "map", "moved", "sent"} |-> t[x]]
        /\ t.at = q.at /\ t.rank = q.rank /\ t.todo = q.todo \ {n}
        /\ t.map = [q.map EXCEPT ![n] = target] /\ t.moved = told /\ t.sent = q.sent
    BY <2>2 DEF Syncs
  <2>4. t = [at |-> q.at, rank |-> q.rank, todo |-> q.todo \ {n},
             map |-> [q.map EXCEPT ![n] = target], moved |-> told, sent |-> q.sent]
    BY <2>3
  <2>. QED BY <1>9, <2>1, <2>2, <2>4
<1>16. /\ sync'.at = "sync" /\ sync'.rank = sync.rank /\ sync'.todo = sync.todo \ {n}
       /\ sync'.moved = told /\ sync'.sent = sync.sent
       /\ sync'.map = [sync.map EXCEPT ![n] = target]
  BY <1>15
<1>17. /\ sync' \in Syncs /\ sync'.map[n] = target
       /\ \A m \in Node \ {n} : sync'.map[m] = sync.map[m]
  <2>1. sync.map \in [Node -> SomeNode]
    BY <1>2 DEF Syncs
  <2>. QED BY <1>2, <1>10, <1>14, <1>15, <1>16, <2>1 DEF Syncs
<1>18. TypeOK'
  <2>1. astray' \subseteq Node
    BY <1>1, <1>9 DEF TypeOK
  <2>. QED BY <1>1, <1>9, <1>13, <1>17, <2>1 DEF TypeOK, Syncs, Managers
<1>19. n \notin sync.moved /\ sync.sent = NoNode
  BY <1>1, <1>9 DEF SyncInOrder
<1>20. SyncInOrder'
  <2>1. moved => target # NoNode
    BY <1>6
  <2>2. \A m \in told : sync'.map[m] # NoNode
    <3>. TAKE m \in told
    <3>1. CASE m = n
      BY <1>8, <1>17, <1>19, <2>1, <3>1
    <3>2. CASE m # n
      BY <1>1, <1>8, <1>14, <1>17, <3>2 DEF SyncInOrder
    <3>. QED BY <3>1, <3>2
  <2>3. sync'.todo \cap told = {}
    BY <1>1, <1>8, <1>16 DEF SyncInOrder
  <2>. QED BY <1>16, <1>19, <2>2, <2>3 DEF SyncInOrder
<1>21. KillsAreOwed'
  BY <1>1, <1>8, <1>9, <1>16 DEF KillsAreOwed
<1>22. NothingIsAhead'
  <2>1. \A m \in Node : mgr'[m].rev <= revision
    <3>. TAKE m \in Node
    <3>1. CASE m = n
      BY <1>2, <1>13, <3>1
    <3>2. CASE m # n
      BY <1>1, <1>13, <3>2 DEF NothingIsAhead
    <3>. QED BY <3>1, <3>2
  <2>. QED BY <1>1, <1>9, <1>16, <2>1 DEF NothingIsAhead
<1>23. \A m \in Node \ {n} : (m \in astray' <=> m \in astray) /\ (m \in told <=> m \in sync.moved)
  BY <1>8, <1>9
<1>24. TurnsAreRight'
  <2>1. SUFFICES ASSUME owed = 0, NEW m \in alive, m \notin sync.todo \ {n}
        PROVE  /\ mgr'[m].rev = revision
               /\ m \in told \/ m \notin astray' => sync'.map[m] = Parent(rank, m)
               /\ m \notin astray' =>
                    mgr'[m].leader = Parent(rank, m) /\ mgr'[m].state # "disconnected"
    BY <1>9, <1>16 DEF TurnsAreRight
  <2>2. CASE m = n
    <3>1. sync.rank = rank /\ rank \in Rankings(alive)
      BY <1>1, <1>9, <2>1 DEF KillsAreOwed
    <3>2. desired = Parent(rank, n) /\ (desired = NoNode => rank[n] = 1)
      BY <1>2, <1>3, <2>1, <2>2, <3>1, DesiredIsTheParent
    <3>3. m \in told \/ m \notin astray' => ~kept
      BY <1>5, <1>6, <1>8, <1>9, <1>19, <2>2
    <3>. QED BY <1>5, <1>11, <1>13, <1>17, <2>2, <3>1, <3>2, <3>3
  <2>3. CASE m # n
    BY <1>1, <1>2, <1>9, <1>13, <1>17, <1>23, <2>1, <2>3 DEF TurnsAreRight
  <2>. QED BY <2>2, <2>3
<1>25. HintsAreRight'
  <2>1. \A m \in Node : handler[m] # NoHint => handler[m].revision < revision
    BY <1>1, <1>9 DEF NothingIsAhead
  <2>2. \A m \in Node : handler[m] # NoHint => handler[m].revision # revision
    <3>1. \A m \in Node : handler[m].revision \in Int
      BY <1>1, <1>2 DEF TypeOK
    <3>. QED BY <1>2, <2>1, <3>1
  <2>. QED BY <1>1, <1>2, <1>9, <2>2 DEF HintsAreRight
<1>26. TransitionsEnd'
  <2>1. SUFFICES ASSUME owed = 0, NEW m \in alive, mgr'[m].state = "transitioning"
        PROVE  handler[m] # NoHint \/ m \in (sync.todo \ {n}) \cup told
    BY <1>9, <1>16 DEF TransitionsEnd
  <2>2. CASE m = n
    BY <1>8, <1>11, <1>13, <2>1, <2>2
  <2>3. CASE m # n
    BY <1>1, <1>2, <1>13, <1>23, <2>1, <2>3 DEF TransitionsEnd
  <2>. QED BY <2>2, <2>3
<1>. QED BY <1>18, <1>20, <1>21, <1>22, <1>24, <1>25, <1>26 DEF IInv

(* A hint that goes out names the parent.                                  *)
LEMMA EmitPreserves ==
  ASSUME IInv, NEW n \in Node, Emit(n)
  PROVE  IInv'
<1>1. /\ TypeOK /\ SyncInOrder /\ KillsAreOwed /\ NothingIsAhead
      /\ TurnsAreRight /\ HintsAreRight /\ TransitionsEnd
  BY DEF IInv
<1>2. sync \in Syncs /\ revision \in 1 .. MaxRevision /\ alive \subseteq Node
  BY <1>1 DEF TypeOK, Syncs
<1>3. PICK target : target = sync.map[n]
  OBVIOUS
<1>4. PICK there \in BOOLEAN : there = ({n, target} \subseteq alive)
  OBVIOUS
<1>5. PICK moved : moved = IF there THEN sync.moved ELSE sync.moved \ {n}
  OBVIOUS
<1>6. PICK sent : sent = IF there THEN n ELSE sync.sent
  OBVIOUS
<1>7. /\ sync.at = "emit" /\ sync.sent = NoNode /\ n \in sync.moved
      /\ hints' = IF there
                  THEN hints \cup {[to |-> n, target |-> target, revision |-> revision]}
                  ELSE hints
      /\ sync' = [sync EXCEPT !.sent = sent, !.moved = moved]
      /\ UNCHANGED <<alive, revision, rank, mgr, connected, recent, owed, handler, astray>>
  BY <1>3, <1>4, <1>5, <1>6 DEF Emit
<1>8. /\ moved \in SUBSET Node /\ moved \subseteq sync.moved /\ sent \in SomeNode
      /\ sent # NoNode => there /\ sent = n /\ sent \in moved
  BY <1>2, <1>4, <1>5, <1>6, <1>7 DEF Syncs, SomeNode
<1>9. sync' = [at |-> sync.at, rank |-> sync.rank, todo |-> sync.todo,
               map |-> sync.map, moved |-> moved, sent |-> sent]
  <2>1. PICK q \in Syncs : q = sync
    BY <1>2
  <2>2. PICK t : t = [q EXCEPT !.sent = sent, !.moved = moved]
    OBVIOUS
  <2>3. /\ t = [x \in {"at", "rank", "todo", "map", "moved", "sent"} |-> t[x]]
        /\ t.at = q.at /\ t.rank = q.rank /\ t.todo = q.todo
        /\ t.map = q.map /\ t.moved = moved /\ t.sent = sent
    BY <2>2 DEF Syncs
  <2>4. t = [at |-> q.at, rank |-> q.rank, todo |-> q.todo,
             map |-> q.map, moved |-> moved, sent |-> sent]
    BY <2>3
  <2>. QED BY <1>7, <2>1, <2>2, <2>4
<1>10. /\ sync' \in Syncs /\ sync'.at = "emit" /\ sync'.rank = sync.rank
       /\ sync'.todo = sync.todo /\ sync'.map = sync.map
       /\ sync'.moved = moved /\ sync'.sent = sent
  BY <1>2, <1>7, <1>8, <1>9 DEF Syncs
<1>11. \A h \in hints' :
          \/ h \in hints
          \/ there /\ h.to = n /\ h.target = target /\ h.revision = revision /\ h \in Hints
  <2>1. PICK h : h = [to |-> n, target |-> target, revision |-> revision]
    OBVIOUS
  <2>2. /\ h.to = n /\ h.target = target /\ h.revision = revision
        /\ there => h \in Hints
    BY <1>2, <1>4, <2>1 DEF Hints
  <2>3. hints' = IF there THEN hints \cup {h} ELSE hints
    BY <1>7, <2>1
  <2>4. \A x \in hints' : x \in hints \/ (there /\ x = h)
    <3>1. CASE there
      BY <2>3, <3>1
    <3>2. CASE ~there
      BY <2>3, <3>2
    <3>. QED BY <3>1, <3>2
  <2>. QED BY <2>2, <2>4
<1>12. TypeOK'
  <2>1. hints' \subseteq Hints
    BY <1>1, <1>11 DEF TypeOK
  <2>. QED BY <1>1, <1>7, <1>10, <2>1 DEF TypeOK, Syncs
<1>13. sync.todo = {}
  BY <1>1, <1>7 DEF SyncInOrder
<1>14. SyncInOrder' /\ KillsAreOwed'
  BY <1>1, <1>7, <1>8, <1>10, <1>13 DEF SyncInOrder, KillsAreOwed
<1>15. NothingIsAhead'
  <2>1. \A h \in hints' : h.revision <= revision
    <3>1. revision <= revision
      BY <1>2
    <3>. QED BY <1>1, <1>11, <3>1 DEF NothingIsAhead
  <2>. QED BY <1>1, <1>7, <1>10, <2>1 DEF NothingIsAhead
<1>16. TurnsAreRight'
  BY <1>1, <1>2, <1>7, <1>8, <1>10 DEF TurnsAreRight
<1>17. owed = 0 => n \in alive /\ target = Parent(rank, n) /\ there
  <2>1. SUFFICES ASSUME owed = 0
        PROVE  n \in alive /\ target = Parent(rank, n) /\ there
    OBVIOUS
  <2>2. n \in alive /\ sync.rank = rank /\ rank \in Rankings(alive)
    BY <1>1, <1>7, <2>1 DEF KillsAreOwed
  <2>3. target = Parent(rank, n)
    BY <1>1, <1>3, <1>7, <1>13, <2>1, <2>2 DEF TurnsAreRight
  <2>4. target # NoNode
    BY <1>1, <1>3, <1>7 DEF SyncInOrder
  <2>5. Parent(rank, n) \in alive \cup {NoNode}
    BY <1>2, <2>2, DesiredIsTheParent
  <2>. QED BY <1>4, <2>2, <2>3, <2>4, <2>5
<1>18. HintsAreRight'
  <2>1. owed = 0 => \A h \in hints' : h.revision = revision => h.target = Parent(rank, h.to)
    BY <1>1, <1>11, <1>17 DEF HintsAreRight
  <2>. QED BY <1>1, <1>7, <2>1 DEF HintsAreRight
<1>19. TransitionsEnd'
  BY <1>1, <1>5, <1>7, <1>10, <1>17 DEF TransitionsEnd
<1>. QED BY <1>12, <1>14, <1>15, <1>16, <1>18, <1>19 DEF IInv

(* tryConnect of a node that is written already changes its manager once   *)
(* more at most.                                                           *)
LEMMA Connecting ==
  ASSUME TypeOK, NEW n \in Node, NEW target \in SomeNode, NEW managers \in [Node -> Managers],
         TryConnect(n, target, managers)
  PROVE  /\ connected' \in [Node -> SomeNode] /\ connected'[n] = target
         /\ \A m \in Node \ {n} : connected'[m] = connected[m]
         /\ recent' \subseteq Node
         /\ mgr' \in [Node -> Managers] /\ mgr'[n].rev = managers[n].rev
         /\ \A m \in Node \ {n} : mgr'[m] = managers[m]
         /\ {n, target} \subseteq alive =>
              mgr'[n].leader = target /\ mgr'[n].state = "connected"
         /\ mgr'[n] = managers[n] \/ (mgr'[n].leader = target /\ mgr'[n].state = "connected")
<1>1. /\ connected' = [connected EXCEPT ![n] = target]
      /\ recent' \in {recent, recent \cup {n}}
      /\ mgr' = IF {n, target} \subseteq alive
                THEN [managers EXCEPT ![n].leader = target, ![n].state = "connected"]
                ELSE managers
  BY DEF TryConnect
<1>2. PICK g : g = [managers EXCEPT ![n].leader = target, ![n].state = "connected"]
  OBVIOUS
<1>3. /\ g \in [Node -> Managers] /\ g[n].rev = managers[n].rev
      /\ g[n].leader = target /\ g[n].state = "connected"
      /\ \A m \in Node \ {n} : g[m] = managers[m]
  <2>1. "connected" \in States
    BY DEF States
  <2>2. WrittenAt(managers, g, n, target, "connected")
    BY <1>2, <2>1, WrittenLeader
  <2>. QED BY <2>2 DEF WrittenAt
<1>4. /\ {n, target} \subseteq alive => mgr' = g
      /\ ~({n, target} \subseteq alive) => mgr' = managers
  BY <1>1, <1>2
<1>5. connected \in [Node -> SomeNode] /\ recent \subseteq Node
  BY DEF TypeOK
<1>6. /\ connected' \in [Node -> SomeNode] /\ connected'[n] = target
      /\ \A m \in Node \ {n} : connected'[m] = connected[m]
      /\ recent' \subseteq Node
  BY <1>1, <1>5
<1>7. /\ mgr' \in [Node -> Managers] /\ mgr'[n].rev = managers[n].rev
      /\ \A m \in Node \ {n} : mgr'[m] = managers[m]
      /\ {n, target} \subseteq alive =>
           mgr'[n].leader = target /\ mgr'[n].state = "connected"
      /\ mgr'[n] = managers[n] \/ (mgr'[n].leader = target /\ mgr'[n].state = "connected")
  BY <1>3, <1>4
<1>. QED BY <1>6, <1>7

LEMMA ConnectPreserves ==
  ASSUME IInv, Connect
  PROVE  IInv'
<1>1. /\ TypeOK /\ SyncInOrder /\ KillsAreOwed /\ NothingIsAhead
      /\ TurnsAreRight /\ HintsAreRight /\ TransitionsEnd
  BY DEF IInv
<1>2. sync \in Syncs /\ mgr \in [Node -> Managers] /\ alive \subseteq Node
  BY <1>1 DEF TypeOK, Syncs, Managers
<1>3. PICK n : n = sync.sent
  OBVIOUS
<1>4. PICK target : target = sync.map[n]
  OBVIOUS
<1>5. PICK moved : moved = sync.moved \ {n}
  OBVIOUS
<1>6. /\ n # NoNode /\ TryConnect(n, target, mgr)
      /\ sync' = [sync EXCEPT !.moved = moved, !.sent = NoNode]
      /\ UNCHANGED <<alive, revision, rank, owed, hints, handler, astray>>
  BY <1>3, <1>4, <1>5 DEF Connect
<1>7. /\ sync.at = "emit" /\ sync.todo = {} /\ n \in sync.moved /\ n \in Node
      /\ target \in SomeNode /\ target # NoNode /\ moved \in SUBSET Node
  BY <1>1, <1>2, <1>3, <1>4, <1>5, <1>6 DEF SyncInOrder, Syncs, SomeNode
<1>8. sync' = [at |-> sync.at, rank |-> sync.rank, todo |-> sync.todo,
               map |-> sync.map, moved |-> moved, sent |-> NoNode]
  <2>1. PICK q \in Syncs : q = sync
    BY <1>2
  <2>2. PICK t : t = [q EXCEPT !.moved = moved, !.sent = NoNode]
    OBVIOUS
  <2>3. /\ t = [x \in {"at", "rank", "todo", "map", "moved", "sent"} |-> t[x]]
        /\ t.at = q.at /\ t.rank = q.rank /\ t.todo = q.todo
        /\ t.map = q.map /\ t.moved = moved /\ t.sent = NoNode
    BY <2>2 DEF Syncs
  <2>4. t = [at |-> q.at, rank |-> q.rank, todo |-> q.todo,
             map |-> q.map, moved |-> moved, sent |-> NoNode]
    BY <2>3
  <2>. QED BY <1>6, <2>1, <2>2, <2>4
<1>9. /\ sync' \in Syncs /\ sync'.at = "emit" /\ sync'.rank = sync.rank
      /\ sync'.todo = {} /\ sync'.map = sync.map
      /\ sync'.moved = moved /\ sync'.sent = NoNode
  BY <1>2, <1>7, <1>8 DEF Syncs, SomeNode
<1>10. /\ connected' \in [Node -> SomeNode] /\ connected'[n] = target
       /\ \A m \in Node \ {n} : connected'[m] = connected[m]
       /\ recent' \subseteq Node
       /\ mgr' \in [Node -> Managers] /\ mgr'[n].rev = mgr[n].rev
       /\ \A m \in Node \ {n} : mgr'[m] = mgr[m]
       /\ {n, target} \subseteq alive =>
            mgr'[n].leader = target /\ mgr'[n].state = "connected"
  BY <1>1, <1>2, <1>6, <1>7, Connecting
<1>11. TypeOK'
  BY <1>1, <1>6, <1>9, <1>10 DEF TypeOK, Syncs, Managers
<1>12. SyncInOrder' /\ KillsAreOwed'
  BY <1>1, <1>5, <1>6, <1>7, <1>9 DEF SyncInOrder, KillsAreOwed
<1>13. NothingIsAhead'
  <2>1. \A m \in Node : mgr'[m].rev = mgr[m].rev
    BY <1>10
  <2>. QED BY <1>1, <1>6, <1>7, <1>9, <2>1 DEF NothingIsAhead
<1>14. owed = 0 => n \in alive /\ target = Parent(rank, n) /\ target \in alive
  <2>1. SUFFICES ASSUME owed = 0
        PROVE  n \in alive /\ target = Parent(rank, n) /\ target \in alive
    OBVIOUS
  <2>2. n \in alive /\ sync.rank = rank /\ rank \in Rankings(alive)
    BY <1>1, <1>7, <2>1 DEF KillsAreOwed
  <2>3. target = Parent(rank, n)
    BY <1>1, <1>4, <1>7, <2>1, <2>2 DEF TurnsAreRight
  <2>4. Parent(rank, n) \in alive \cup {NoNode}
    BY <1>2, <2>2, DesiredIsTheParent
  <2>. QED BY <1>7, <2>2, <2>3, <2>4
<1>15. TurnsAreRight'
  <2>1. SUFFICES ASSUME owed = 0, NEW m \in alive
        PROVE  /\ mgr'[m].rev = revision
               /\ m \in moved \/ m \notin astray => sync.map[m] = Parent(rank, m)
               /\ m \notin astray =>
                    /\ mgr'[m].leader = Parent(rank, m) /\ mgr'[m].state # "disconnected"
                    /\ connected'[m] = Parent(rank, m)
    BY <1>6, <1>9 DEF TurnsAreRight
  <2>2. CASE m = n
    BY <1>1, <1>5, <1>7, <1>10, <1>14, <2>1, <2>2 DEF TurnsAreRight
  <2>3. CASE m # n
    BY <1>1, <1>2, <1>5, <1>7, <1>10, <2>1, <2>3 DEF TurnsAreRight
  <2>. QED BY <2>2, <2>3
<1>16. HintsAreRight'
  BY <1>1, <1>6 DEF HintsAreRight
<1>17. TransitionsEnd'
  <2>1. SUFFICES ASSUME owed = 0, NEW m \in alive, mgr'[m].state = "transitioning"
        PROVE  handler[m] # NoHint \/ m \in moved
    BY <1>6, <1>9 DEF TransitionsEnd
  <2>2. m # n
    BY <1>10, <1>14, <2>1
  <2>. QED BY <1>1, <1>2, <1>5, <1>7, <1>10, <2>1, <2>2 DEF TransitionsEnd
<1>. QED BY <1>11, <1>12, <1>13, <1>15, <1>16, <1>17 DEF IInv

LEMMA LosePreserves ==
  ASSUME IInv, NEW h \in hints, Lose(h)
  PROVE  IInv'
<1>1. /\ hints' \subseteq hints
      /\ UNCHANGED <<alive, revision, rank, mgr, connected, recent, sync, owed, handler, astray>>
  BY DEF Lose
<1>2. TypeOK' /\ SyncInOrder' /\ KillsAreOwed'
  BY <1>1 DEF IInv, TypeOK, SyncInOrder, KillsAreOwed
<1>3. NothingIsAhead' /\ TurnsAreRight' /\ HintsAreRight' /\ TransitionsEnd'
  BY <1>1 DEF IInv, NothingIsAhead, TurnsAreRight, HintsAreRight, TransitionsEnd
<1>. QED BY <1>2, <1>3 DEF IInv

LEMMA CooldownPreserves ==
  ASSUME IInv, NEW n \in Node, CooldownOver(n)
  PROVE  IInv'
<1>1. /\ recent' \subseteq recent
      /\ UNCHANGED <<alive, revision, rank, mgr, connected, sync, owed, hints, handler, astray>>
  BY DEF CooldownOver
<1>2. TypeOK' /\ SyncInOrder' /\ KillsAreOwed'
  BY <1>1 DEF IInv, TypeOK, SyncInOrder, KillsAreOwed
<1>3. NothingIsAhead' /\ TurnsAreRight' /\ HintsAreRight' /\ TransitionsEnd'
  BY <1>1 DEF IInv, NothingIsAhead, TurnsAreRight, HintsAreRight, TransitionsEnd
<1>. QED BY <1>2, <1>3 DEF IInv

(* A kill owes a cascade, and that one's sync will write everybody.        *)
LEMMA KillPreserves ==
  ASSUME IInv, NEW n \in Node, Kill(n)
  PROVE  IInv'
<1>1. /\ TypeOK /\ SyncInOrder /\ KillsAreOwed /\ NothingIsAhead
  BY DEF IInv
<1>2. /\ n \in alive /\ Cardinality(Node \ alive) < MaxKills
      /\ alive' = alive \ {n} /\ rank' = [rank EXCEPT ![n] = 0]
      /\ connected' = [m \in Node |-> IF n \in {m, connected[m]} THEN NoNode ELSE connected[m]]
      /\ recent' = recent \ {n} /\ owed' = owed + 1
      /\ UNCHANGED <<revision, mgr, sync, hints, handler, astray>>
  BY DEF Kill
<1>3. Cardinality(Node) \in Nat /\ MaxKills \in Nat /\ owed \in Nat
  <2>1. Cardinality(Node) \in Nat
    BY NodeAssumption, FS_CardinalityType
  <2>. QED BY <1>1, <2>1, BoundAssumption DEF TypeOK
<1>4. /\ Cardinality(Node \ alive') = Cardinality(Node \ alive) + 1
      /\ Cardinality(Node \ alive) \in Nat
  <2>. DEFINE gone == Node \ alive
  <2>1. IsFiniteSet(gone) /\ n \notin gone /\ Node \ alive' = gone \cup {n}
    BY <1>2, NodeAssumption, FS_Subset
  <2>2. Cardinality(gone \cup {n}) = Cardinality(gone) + 1 /\ Cardinality(gone) \in Nat
    <3>. HIDE DEF gone
    <3>. QED BY <2>1, FS_AddElement, FS_CardinalityType
  <2>. QED BY <2>1, <2>2
<1>5. owed' <= Cardinality(Node \ alive') /\ Cardinality(Node \ alive') <= MaxKills
      /\ owed' \in 0 .. MaxKills /\ owed' # 0
  BY <1>1, <1>2, <1>3, <1>4 DEF KillsAreOwed
<1>6. TypeOK'
  <2>1. rank' \in [Node -> 0 .. Cardinality(Node)]
    BY <1>1, <1>2, <1>3 DEF TypeOK
  <2>2. connected' \in [Node -> SomeNode]
    BY <1>1, <1>2 DEF TypeOK, SomeNode
  <2>. QED BY <1>1, <1>2, <1>5, <2>1, <2>2 DEF TypeOK
<1>7. SyncInOrder' /\ KillsAreOwed' /\ NothingIsAhead'
  BY <1>1, <1>2, <1>5 DEF SyncInOrder, KillsAreOwed, NothingIsAhead
<1>8. TurnsAreRight' /\ HintsAreRight' /\ TransitionsEnd'
  BY <1>5 DEF TurnsAreRight, HintsAreRight, TransitionsEnd
<1>. QED BY <1>6, <1>7, <1>8 DEF IInv

(* What a node does with a hint it takes.                                  *)
HintTaken(n, h) ==
  \E leader \in SomeNode, state \in States :
    /\ WrittenAt(mgr, mgr', n, leader, state)
    /\ astray \subseteq astray' /\ astray' \subseteq astray \cup {n}
    /\ owed = 0 => n \in astray' \/ (leader = mgr[n].leader /\ state # "disconnected")
    /\ \/ handler' = handler /\ state # "transitioning"
       \/ /\ h.target # mgr[n].leader
          /\ handler' = [handler EXCEPT ![n] =
               [to |-> n, target |-> h.target, revision |-> h.revision,
                prev |-> mgr[n].leader]]

(* A hint of the latest tree finds its node at its parent, unless the node *)
(* had been led astray; any other leads it astray.                         *)
LEMMA HintReadPreserves ==
  ASSUME IInv, NEW n \in Node, HintRead(n)
  PROVE  IInv'
<1>1. /\ TypeOK /\ SyncInOrder /\ KillsAreOwed /\ NothingIsAhead
      /\ TurnsAreRight /\ HintsAreRight /\ TransitionsEnd
  BY DEF IInv
<1>2. /\ mgr \in [Node -> Managers] /\ revision \in Nat /\ MaxRevision \in Nat
      /\ alive \subseteq Node /\ hints \subseteq Hints /\ astray \subseteq Node
  BY <1>1, BoundAssumption DEF TypeOK, Managers
<1>3. PICK h \in hints :
        /\ h.to = n /\ n \in alive /\ handler[n] = NoHint /\ hints' = hints \ {h}
        /\ IF mgr[n].leader = h.target
           THEN /\ mgr' = [mgr EXCEPT ![n].state = "connected"]
                /\ UNCHANGED <<handler, astray>>
           ELSE IF h.target \notin alive
           THEN /\ mgr' = [mgr EXCEPT ![n].leader = NoNode, ![n].state = "disconnected"]
                /\ LedAstray(n, h.revision) /\ UNCHANGED handler
           ELSE /\ UNCHANGED astray
                /\ mgr' = [mgr EXCEPT ![n].state = "transitioning"]
                /\ handler' = [handler EXCEPT ![n] =
                     [to |-> n, target |-> h.target, revision |-> h.revision,
                      prev |-> mgr[n].leader]]
        /\ UNCHANGED <<alive, revision, rank, connected, recent, sync, owed>>
  BY DEF HintRead
<1>4. /\ h.target \in Node /\ h.revision \in 1 .. MaxRevision /\ h.revision <= revision
      /\ sync.at = "sync" => h.revision < revision
      /\ mgr[n].leader \in SomeNode
  BY <1>1, <1>2 DEF Hints, NothingIsAhead, Managers
<1>5. ASSUME owed = 0, h.revision = revision
      PROVE  /\ h.target = Parent(rank, n) /\ h.target \in alive /\ n \notin sync.todo
  <2>1. h.target = Parent(rank, n)
    BY <1>1, <1>3, <1>5 DEF HintsAreRight
  <2>2. rank \in Rankings(alive)
    BY <1>1, <1>5 DEF KillsAreOwed
  <2>3. rank[n] \in Nat /\ rank[n] >= 1 /\ (rank[n] > 1 => Parent(rank, n) \in alive)
        /\ (rank[n] = 1 => Parent(rank, n) = NoNode)
    BY <1>2, <1>3, <2>2, ParentOfRanked
  <2>4. Parent(rank, n) \in alive
    BY <1>4, <2>1, <2>3, NodeAssumption
  <2>5. sync.at # "sync"
    BY <1>4, <1>5
  <2>. QED BY <1>1, <2>1, <2>4, <2>5 DEF SyncInOrder
<1>6. HintTaken(n, h)
  <2>1. CASE mgr[n].leader = h.target
    <3>1. WrittenAt(mgr, mgr', n, mgr[n].leader, "connected")
      <4>1. mgr' = [mgr EXCEPT ![n].state = "connected"] /\ "connected" \in States
        BY <1>3, <2>1 DEF States
      <4>2. PICK f, g : f = mgr /\ g = mgr'
        OBVIOUS
      <4>3. WrittenAt(f, g, n, f[n].leader, "connected")
        BY <1>2, <4>1, <4>2, WrittenState
      <4>. QED BY <4>2, <4>3
    <3>2. "connected" \in States
      BY DEF States
    <3>. QED BY <1>3, <1>4, <2>1, <3>1, <3>2 DEF HintTaken
  <2>2. CASE mgr[n].leader # h.target /\ h.target \notin alive
    <3>1. WrittenAt(mgr, mgr', n, NoNode, "disconnected")
      <4>1. /\ mgr' = [mgr EXCEPT ![n].leader = NoNode, ![n].state = "disconnected"]
            /\ "disconnected" \in States /\ NoNode \in SomeNode
        BY <1>3, <2>2 DEF States, SomeNode
      <4>2. PICK f, g : f = mgr /\ g = mgr'
        OBVIOUS
      <4>3. WrittenAt(f, g, n, NoNode, "disconnected")
        BY <1>2, <4>1, <4>2, WrittenLeader
      <4>. QED BY <4>2, <4>3
    <3>2. "disconnected" \in States /\ NoNode \in SomeNode
      BY DEF States, SomeNode
    <3>3. handler' = handler /\ astray' = IF h.revision < revision THEN astray \cup {n} ELSE astray
      BY <1>3, <2>2 DEF LedAstray
    <3>4. owed = 0 => h.revision < revision
      <4>1. owed = 0 => h.revision # revision
        BY <1>5, <2>2
      <4>. QED BY <1>2, <1>4, <4>1
    <3>. QED BY <3>1, <3>2, <3>3, <3>4 DEF HintTaken
  <2>3. CASE mgr[n].leader # h.target /\ h.target \in alive
    <3>1. WrittenAt(mgr, mgr', n, mgr[n].leader, "transitioning")
      <4>1. mgr' = [mgr EXCEPT ![n].state = "transitioning"] /\ "transitioning" \in States
        BY <1>3, <2>3 DEF States
      <4>2. PICK f, g : f = mgr /\ g = mgr'
        OBVIOUS
      <4>3. WrittenAt(f, g, n, f[n].leader, "transitioning")
        BY <1>2, <4>1, <4>2, WrittenState
      <4>. QED BY <4>2, <4>3
    <3>2. "transitioning" \in States
      BY DEF States
    <3>. QED BY <1>3, <1>4, <2>3, <3>1, <3>2 DEF HintTaken
  <2>. QED BY <2>1, <2>2, <2>3
<1>7. PICK leader \in SomeNode, state \in States :
        /\ WrittenAt(mgr, mgr', n, leader, state)
        /\ astray \subseteq astray' /\ astray' \subseteq astray \cup {n}
        /\ owed = 0 => n \in astray' \/ (leader = mgr[n].leader /\ state # "disconnected")
        /\ \/ handler' = handler /\ state # "transitioning"
           \/ /\ h.target # mgr[n].leader
              /\ handler' = [handler EXCEPT ![n] =
                   [to |-> n, target |-> h.target, revision |-> h.revision,
                    prev |-> mgr[n].leader]]
  BY <1>6 DEF HintTaken
<1>8. PICK r : r = [to |-> n, target |-> h.target, revision |-> h.revision, prev |-> mgr[n].leader]
  OBVIOUS
<1>9. /\ r.to = n /\ r.revision = h.revision /\ r # NoHint
      /\ r \in [to : SomeNode, target : SomeNode, revision : 0 .. MaxRevision, prev : SomeNode]
  <2>1. r.to = n /\ r.revision = h.revision
    BY <1>8
  <2>2. NoHint.to = NoNode
    BY DEF NoHint
  <2>3. r \in [to : SomeNode, target : SomeNode, revision : 0 .. MaxRevision, prev : SomeNode]
    BY <1>2, <1>4, <1>8 DEF SomeNode
  <2>. QED BY <2>1, <2>2, <2>3, NodeAssumption
<1>10. /\ \A m \in Node \ {n} : handler'[m] = handler[m]
       /\ \/ handler'[n] = NoHint /\ state # "transitioning"
          \/ handler'[n] = r /\ h.target # mgr[n].leader
       /\ handler' \in [Node -> [to : SomeNode, target : SomeNode,
                                 revision : 0 .. MaxRevision, prev : SomeNode]]
  <2>1. handler \in [Node -> [to : SomeNode, target : SomeNode,
                              revision : 0 .. MaxRevision, prev : SomeNode]]
    BY <1>1 DEF TypeOK
  <2>2. CASE handler' = handler /\ state # "transitioning"
    BY <1>3, <2>1, <2>2
  <2>3. CASE h.target # mgr[n].leader /\ handler' = [handler EXCEPT ![n] = r]
    BY <1>9, <2>1, <2>3
  <2>. QED BY <1>7, <1>8, <2>2, <2>3
<1>11. /\ mgr' \in [Node -> Managers] /\ mgr'[n].rev = mgr[n].rev
       /\ mgr'[n].leader = leader /\ mgr'[n].state = state
       /\ \A m \in Node \ {n} : mgr'[m] = mgr[m]
  BY <1>7 DEF WrittenAt
<1>12. TypeOK'
  <2>1. astray' \subseteq Node /\ hints' \subseteq Hints
    BY <1>2, <1>3, <1>7
  <2>. QED BY <1>1, <1>3, <1>10, <1>11, <2>1 DEF TypeOK, Managers
<1>13. SyncInOrder' /\ KillsAreOwed'
  BY <1>1, <1>3 DEF SyncInOrder, KillsAreOwed
<1>14. NothingIsAhead'
  <2>1. \A m \in Node : mgr'[m].rev = mgr[m].rev
    BY <1>11
  <2>2. \A m \in Node : handler'[m] # NoHint =>
          handler'[m].revision <= revision /\ (sync.at = "sync" => handler'[m].revision < revision)
    BY <1>1, <1>4, <1>9, <1>10 DEF NothingIsAhead
  <2>. QED BY <1>1, <1>3, <2>1, <2>2 DEF NothingIsAhead
<1>15. TurnsAreRight'
  <2>1. SUFFICES ASSUME owed = 0, NEW m \in alive, m \notin sync.todo
        PROVE  /\ mgr'[m].rev = revision
               /\ sync.at # "idle" /\ (m \in sync.moved \/ m \notin astray') =>
                    sync.map[m] = Parent(rank, m)
               /\ m \notin astray' =>
                    /\ mgr'[m].leader = Parent(rank, m) /\ mgr'[m].state # "disconnected"
                    /\ sync.at # "sync" => connected[m] = Parent(rank, m)
    BY <1>3 DEF TurnsAreRight
  <2>2. /\ mgr[m].rev = revision
        /\ sync.at # "idle" /\ (m \in sync.moved \/ m \notin astray) =>
             sync.map[m] = Parent(rank, m)
        /\ m \notin astray =>
             /\ mgr[m].leader = Parent(rank, m) /\ mgr[m].state # "disconnected"
             /\ sync.at # "sync" => connected[m] = Parent(rank, m)
    BY <1>1, <2>1 DEF TurnsAreRight
  <2>3. CASE m = n
    BY <1>7, <1>11, <2>1, <2>2, <2>3
  <2>4. CASE m # n
    BY <1>2, <1>7, <1>11, <2>1, <2>2, <2>4
  <2>. QED BY <2>3, <2>4
<1>16. HintsAreRight'
  <2>1. SUFFICES ASSUME owed = 0, NEW m \in alive, handler'[m] # NoHint,
                        handler'[m].revision = revision
        PROVE  m \in astray'
    BY <1>1, <1>3 DEF HintsAreRight
  <2>2. CASE m = n
    <3>1. h.target # mgr[n].leader /\ h.revision = revision
      BY <1>9, <1>10, <2>1, <2>2
    <3>2. h.target = Parent(rank, n) /\ n \notin sync.todo
      BY <1>5, <2>1, <3>1
    <3>3. n \in astray
      BY <1>1, <1>3, <2>1, <3>1, <3>2 DEF TurnsAreRight
    <3>. QED BY <1>7, <2>2, <3>3
  <2>3. CASE m # n
    BY <1>1, <1>2, <1>7, <1>10, <2>1, <2>3 DEF HintsAreRight
  <2>. QED BY <2>2, <2>3
<1>17. TransitionsEnd'
  <2>1. SUFFICES ASSUME owed = 0, NEW m \in alive, mgr'[m].state = "transitioning"
        PROVE  handler'[m] # NoHint \/ m \in sync.todo \cup sync.moved
    BY <1>3 DEF TransitionsEnd
  <2>2. CASE m = n
    BY <1>9, <1>10, <1>11, <2>1, <2>2
  <2>3. CASE m # n
    BY <1>1, <1>2, <1>10, <1>11, <2>1, <2>3 DEF TransitionsEnd
  <2>. QED BY <2>2, <2>3
<1>. QED BY <1>12, <1>13, <1>14, <1>15, <1>16, <1>17 DEF IInv

(* A node that acts on a hint is astray afterwards: it was before, or the  *)
(* hint is of an older tree.                                               *)
LEMMA HintApplyPreserves ==
  ASSUME IInv, NEW n \in Node, HintApply(n)
  PROVE  IInv'
<1>1. /\ TypeOK /\ SyncInOrder /\ KillsAreOwed /\ NothingIsAhead
      /\ TurnsAreRight /\ HintsAreRight /\ TransitionsEnd
  BY DEF IInv
<1>2. /\ mgr \in [Node -> Managers] /\ revision \in Nat /\ MaxRevision \in Nat
      /\ alive \subseteq Node /\ astray \subseteq Node
      /\ handler \in [Node -> [to : SomeNode, target : SomeNode,
                               revision : 0 .. MaxRevision, prev : SomeNode]]
  BY <1>1, BoundAssumption DEF TypeOK, Managers
<1>3. PICK h \in [to : SomeNode, target : SomeNode, revision : 0 .. MaxRevision, prev : SomeNode] :
        h = handler[n]
  BY <1>2
<1>4. /\ h # NoHint
      /\ IF Throttled(n, h.prev, h.target)
         THEN /\ mgr' = [mgr EXCEPT ![n].leader = h.prev, ![n].state = "connected"]
              /\ UNCHANGED <<connected, recent>>
         ELSE TryConnect(n, h.target,
                [mgr EXCEPT ![n].leader = h.target, ![n].state = "connected"])
      /\ handler' = [handler EXCEPT ![n] = NoHint]
      /\ LedAstray(n, h.revision)
      /\ UNCHANGED <<alive, revision, rank, sync, owed, hints>>
  BY <1>3 DEF HintApply
<1>5. /\ mgr' \in [Node -> Managers] /\ mgr'[n].rev = mgr[n].rev
      /\ mgr'[n].state = "connected"
      /\ \A m \in Node \ {n} : mgr'[m] = mgr[m] /\ connected'[m] = connected[m]
      /\ connected' \in [Node -> SomeNode] /\ recent' \subseteq Node
  <2>1. "connected" \in States /\ h.prev \in SomeNode /\ h.target \in SomeNode
    BY <1>3 DEF States
  <2>2. CASE Throttled(n, h.prev, h.target)
    <3>1. WrittenAt(mgr, mgr', n, h.prev, "connected")
      <4>1. PICK f, g : f = mgr /\ g = mgr'
        OBVIOUS
      <4>2. g = [f EXCEPT ![n].leader = h.prev, ![n].state = "connected"]
        BY <1>4, <2>2, <4>1
      <4>3. WrittenAt(f, g, n, h.prev, "connected")
        BY <1>2, <2>1, <4>1, <4>2, WrittenLeader
      <4>. QED BY <4>1, <4>3
    <3>. QED BY <1>1, <1>4, <2>2, <3>1 DEF WrittenAt, TypeOK
  <2>3. CASE ~Throttled(n, h.prev, h.target)
    <3>1. PICK f : f = mgr
      OBVIOUS
    <3>2. PICK g : g = [f EXCEPT ![n].leader = h.target, ![n].state = "connected"]
      OBVIOUS
    <3>3. WrittenAt(f, g, n, h.target, "connected")
      BY <1>2, <2>1, <3>1, <3>2, WrittenLeader
    <3>4. TryConnect(n, h.target, g)
      BY <1>4, <2>3, <3>1, <3>2
    <3>. QED BY <1>1, <2>1, <3>1, <3>3, <3>4, Connecting DEF WrittenAt
  <2>. QED BY <2>2, <2>3
<1>6. /\ \A m \in Node \ {n} : handler'[m] = handler[m]
      /\ handler'[n] = NoHint
      /\ handler' \in [Node -> [to : SomeNode, target : SomeNode,
                                revision : 0 .. MaxRevision, prev : SomeNode]]
  <2>1. NoHint \in [to : SomeNode, target : SomeNode, revision : 0 .. MaxRevision, prev : SomeNode]
    BY <1>2 DEF NoHint, SomeNode
  <2>. QED BY <1>2, <1>4, <2>1
<1>7. /\ astray \subseteq astray' /\ astray' \subseteq astray \cup {n}
      /\ owed = 0 /\ n \in alive => n \in astray'
  <2>1. h.revision \in Nat /\ h.revision <= revision
    BY <1>1, <1>2, <1>3, <1>4 DEF NothingIsAhead
  <2>2. owed = 0 /\ n \in alive /\ h.revision = revision => n \in astray
    BY <1>1, <1>3, <1>4 DEF HintsAreRight
  <2>3. astray' = IF h.revision < revision THEN astray \cup {n} ELSE astray
    BY <1>4 DEF LedAstray
  <2>4. h.revision < revision \/ h.revision = revision
    BY <1>2, <2>1
  <2>. QED BY <2>2, <2>3, <2>4
<1>8. TypeOK'
  BY <1>1, <1>2, <1>4, <1>5, <1>6, <1>7 DEF TypeOK, Managers
<1>9. SyncInOrder' /\ KillsAreOwed'
  BY <1>1, <1>4 DEF SyncInOrder, KillsAreOwed
<1>10. NothingIsAhead'
  <2>1. \A m \in Node : mgr'[m].rev = mgr[m].rev
    BY <1>5
  <2>2. \A m \in Node : handler'[m] # NoHint => handler'[m] = handler[m]
    BY <1>6
  <2>. QED BY <1>1, <1>4, <2>1, <2>2 DEF NothingIsAhead
<1>11. TurnsAreRight'
  <2>1. SUFFICES ASSUME owed = 0, NEW m \in alive, m \notin sync.todo
        PROVE  /\ mgr'[m].rev = revision
               /\ sync.at # "idle" /\ (m \in sync.moved \/ m \notin astray') =>
                    sync.map[m] = Parent(rank, m)
               /\ m \notin astray' =>
                    /\ mgr'[m].leader = Parent(rank, m) /\ mgr'[m].state # "disconnected"
                    /\ sync.at # "sync" => connected'[m] = Parent(rank, m)
    BY <1>4 DEF TurnsAreRight
  <2>2. /\ mgr[m].rev = revision
        /\ sync.at # "idle" /\ (m \in sync.moved \/ m \notin astray) =>
             sync.map[m] = Parent(rank, m)
        /\ m \notin astray =>
             /\ mgr[m].leader = Parent(rank, m) /\ mgr[m].state # "disconnected"
             /\ sync.at # "sync" => connected[m] = Parent(rank, m)
    BY <1>1, <2>1 DEF TurnsAreRight
  <2>3. CASE m = n
    BY <1>5, <1>7, <2>1, <2>2, <2>3
  <2>4. CASE m # n
    BY <1>2, <1>5, <1>7, <2>1, <2>2, <2>4
  <2>. QED BY <2>3, <2>4
<1>12. HintsAreRight'
  <2>1. SUFFICES ASSUME owed = 0, NEW m \in alive, handler'[m] # NoHint,
                        handler'[m].revision = revision
        PROVE  m \in astray'
    BY <1>1, <1>4 DEF HintsAreRight
  <2>. QED BY <1>1, <1>2, <1>6, <1>7, <2>1 DEF HintsAreRight
<1>13. TransitionsEnd'
  <2>1. SUFFICES ASSUME owed = 0, NEW m \in alive, mgr'[m].state = "transitioning"
        PROVE  handler'[m] # NoHint \/ m \in sync.todo \cup sync.moved
    BY <1>4 DEF TransitionsEnd
  <2>2. m # n
    BY <1>5, <2>1
  <2>. QED BY <1>1, <1>2, <1>5, <1>6, <2>1, <2>2 DEF TransitionsEnd
<1>. QED BY <1>8, <1>9, <1>10, <1>11, <1>12, <1>13 DEF IInv
-----------------------------------------------------------------------------
LEMMA NextPreserves ==
  ASSUME IInv, [Next]_vars
  PROVE  IInv'
<1>1. revision \in Nat /\ owed \in Nat /\ MaxRevision \in Nat
  <2>1. MaxKills \in Int
    <3>1. Cardinality(Node) \in Nat
      BY NodeAssumption, FS_CardinalityType
    <3>. QED BY <3>1, BoundAssumption
  <2>. QED BY <2>1, BoundAssumption DEF IInv, TypeOK
<1>2. CASE JoinCascade
  <2>1. Cascade(owed) /\ owed' = owed
    BY <1>2 DEF JoinCascade
  <2>2. revision < MaxRevision
    <3>1. revision < MaxRevision - owed
      BY <2>1 DEF Cascade
    <3>. QED BY <1>1, <3>1
  <2>3. PICK owing : owing = owed
    OBVIOUS
  <2>4. Cascade(owing)
    BY <2>1, <2>3
  <2>. QED BY <1>1, <2>1, <2>2, <2>4, CascadePreserves
<1>3. CASE KillCascade
  <2>1. Cascade(0) /\ owed > 0 /\ owed' = owed - 1
    BY <1>3 DEF KillCascade
  <2>2. revision < MaxRevision
    <3>1. revision < MaxRevision - 0
      BY <2>1 DEF Cascade
    <3>. QED BY <1>1, <3>1
  <2>3. owed' \in Nat /\ owed' <= owed
    BY <1>1, <2>1
  <2>. QED BY <2>1, <2>2, <2>3, CascadePreserves
<1>4. CASE SyncMaps
  BY <1>4, SyncMapsPreserves
<1>5. CASE Connect
  BY <1>5, ConnectPreserves
<1>6. CASE SyncEnd
  BY <1>6, SyncEndPreserves
<1>7. ASSUME NEW n \in Node, SyncNode(n)
      PROVE  IInv'
  BY <1>7, SyncNodePreserves
<1>8. ASSUME NEW n \in Node, Emit(n)
      PROVE  IInv'
  BY <1>8, EmitPreserves
<1>9. ASSUME NEW n \in Node, HintRead(n)
      PROVE  IInv'
  BY <1>9, HintReadPreserves
<1>10. ASSUME NEW n \in Node, HintApply(n)
       PROVE  IInv'
  BY <1>10, HintApplyPreserves
<1>11. ASSUME NEW n \in Node, Kill(n)
       PROVE  IInv'
  BY <1>11, KillPreserves
<1>12. ASSUME NEW n \in Node, CooldownOver(n)
       PROVE  IInv'
  BY <1>12, CooldownPreserves
<1>13. ASSUME NEW h \in hints, Lose(h)
       PROVE  IInv'
  BY <1>13, LosePreserves
<1>14. CASE UNCHANGED vars
  <2>1. UNCHANGED <<alive, revision, rank, mgr, connected, recent, sync, owed, hints,
                    handler, astray>>
    BY <1>14 DEF vars
  <2>2. TypeOK' /\ SyncInOrder' /\ KillsAreOwed'
    BY <2>1 DEF IInv, TypeOK, SyncInOrder, KillsAreOwed
  <2>3. NothingIsAhead' /\ TurnsAreRight' /\ HintsAreRight' /\ TransitionsEnd'
    BY <2>1 DEF IInv, NothingIsAhead, TurnsAreRight, HintsAreRight, TransitionsEnd
  <2>. QED BY <2>2, <2>3 DEF IInv
<1>. QED
  BY <1>2, <1>3, <1>4, <1>5, <1>6, <1>7, <1>8, <1>9, <1>10, <1>11, <1>12, <1>13, <1>14 DEF Next

LEMMA Invariance == Spec => []IInv
<1>1. Init => IInv
  BY InitEstablishes
<1>2. IInv /\ [Next]_vars => IInv'
  BY NextPreserves
<1>. QED BY <1>1, <1>2, PTL DEF Spec

(* Every variable keeps to its type: among others, no more cascades are    *)
(* owed than kills may happen, and the sync writes no leader that never    *)
(* was a node.                                                             *)
THEOREM AttachmentTypes == Spec => []TypeOK
<1>1. IInv => TypeOK
  BY DEF IInv
<1>. QED BY <1>1, Invariance, PTL

(* Once no cascade runs or is owed and no hint is half handled, a node's   *)
(* manager and m.connected name the parent the latest tree gave it, unless *)
(* an older tree's hint or the cooldown led it elsewhere: for any number   *)
(* of nodes, kills and cascades, in any order of turns, hints and losses   *)
(* (syncManagersFromHierarchy, tryConnect, onWSTransitionHint).            *)
THEOREM ManagersFollowTheTree == Spec => []OnlyLateHintsLeadAstray
<1>1. IInv => OnlyLateHintsLeadAstray
  <2>1. SUFFICES ASSUME IInv, Quiet, NEW n \in alive \ astray
        PROVE  /\ mgr[n].leader = Parent(rank, n) /\ connected[n] = Parent(rank, n)
               /\ mgr[n].rev = revision /\ mgr[n].state = "connected"
    BY DEF OnlyLateHintsLeadAstray
  <2>2. sync.at = "idle" /\ owed = 0 /\ sync.todo = {} /\ sync.moved = {}
    BY <2>1 DEF Quiet, IInv, SyncInOrder
  <2>3. /\ mgr[n].leader = Parent(rank, n) /\ connected[n] = Parent(rank, n)
        /\ mgr[n].rev = revision /\ mgr[n].state # "disconnected"
    BY <2>1, <2>2 DEF IInv, TurnsAreRight
  <2>4. n \in Node /\ mgr[n].state \in States
    BY <2>1 DEF IInv, TypeOK
  <2>5. mgr[n].state # "transitioning"
    BY <2>1, <2>2, <2>4 DEF IInv, TransitionsEnd, Quiet
  <2>. QED BY <2>3, <2>4, <2>5 DEF States
<1>. QED BY <1>1, Invariance, PTL

(* Once things are quiet no node is left in transition, whether its hint   *)
(* was lost, late, throttled, or for a leader that died meanwhile          *)
(* (setConnectionState in the sync and in onWSTransitionHint).             *)
THEOREM TransitionsComplete == Spec => []NoneLeftTransitioning
<1>1. IInv => NoneLeftTransitioning
  <2>1. SUFFICES ASSUME IInv, Quiet, NEW n \in alive
        PROVE  mgr[n].state # "transitioning"
    BY DEF NoneLeftTransitioning
  <2>2. owed = 0 /\ sync.todo = {} /\ sync.moved = {} /\ n \in Node /\ handler[n] = NoHint
    BY <2>1 DEF Quiet, IInv, SyncInOrder, TypeOK
  <2>. QED BY <2>1, <2>2 DEF IInv, TransitionsEnd
<1>. QED BY <1>1, Invariance, PTL

(* A node whose leader was killed, and that was not led astray, has a      *)
(* cascade to come to it: the one its leader's kill owes, or its turn in   *)
(* the one that runs (KillNodes, syncManagersFromHierarchy).               *)
THEOREM OrphansAreNotForgotten == Spec => []OrphansAreLookedAt
<1>1. IInv => OrphansAreLookedAt
  <2>1. SUFFICES ASSUME IInv, NEW n \in Node, Orphan(n), owed = 0, n \notin sync.todo
        PROVE  FALSE
    BY DEF IInv, TypeOK, OrphansAreLookedAt
  <2>2. /\ n \in alive \ astray /\ mgr[n].leader \notin alive \cup {NoNode}
        /\ alive \subseteq Node /\ rank \in Rankings(alive)
    BY <2>1 DEF Orphan, IInv, TypeOK, KillsAreOwed
  <2>3. mgr[n].leader = Parent(rank, n)
    BY <2>1, <2>2 DEF IInv, TurnsAreRight
  <2>4. Parent(rank, n) \in alive \cup {NoNode}
    BY <2>2, ParentOfRanked
  <2>. QED BY <2>2, <2>3, <2>4
<1>. QED BY <1>1, Invariance, PTL
=============================================================================
