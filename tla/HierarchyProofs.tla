---------------------------- MODULE HierarchyProofs ----------------------------
(***************************************************************************)
(* The rankings, their labels and the managers' positions and caches, for  *)
(* any set of nodes, any number of cascades and any Y and N.               *)
(***************************************************************************)
EXTENDS Hierarchy, FiniteSetTheorems, WellFoundedInduction, TLAPS

(* placementMu: a cascade is under way if and only if it has the mutex.    *)
OneCascade == \A w \in Cascader : writer[w].pc # "idle" <=> placement = w

(* The rebuilds that are installed and not counted yet.                    *)
Uncounted ==
  (IF writer[Starter].pc = "bump" THEN 1 ELSE 0)
    + (IF placement # NoWriter /\ writer[placement].pc = "bump" THEN 1 ELSE 0)

InstallsAreCounted == installs = revision + Uncounted

Labelled(w) == writer[w].pc \in {"sync", "set"}

(* No label, revision or index is from the future.                         *)
NothingIsAhead ==
  /\ \A w \in Writer : Labelled(w) => writer[w].label <= revision /\ writer[w].index <= installs
  /\ \A n \in Node : mgr[n].rev <= revision /\ mgr[n].cache.index <= installs
  /\ \A w \in Cascader : writer[w].pc = "sync" =>
       \A n \in Node : mgr[n].cache.index <= writer[w].index

(* The cascade of w is to write n's position, with a label of at least r.  *)
WillWrite(w, n, r) ==
  \/ writer[w].pc \in {"read", "install"}
  \/ writer[w].pc = "bump" /\ r <= revision + 1
  \/ writer[w].pc = "own" /\ r <= revision
  \/ writer[w].pc = "sync" /\ n \in writer[w].todo /\ r <= writer[w].label

(* A manager has its node's level, or a cascade will write it and will not *)
(* be refused.                                                             *)
PositionsGetRight ==
  \A n \in Node :
    mgr[n].level = level[n] \/ \E w \in Cascader : WillWrite(w, n, mgr[n].rev)

(* What Start is about to write is the node's level, or is refused, or a   *)
(* cascade with a higher label will write it again.                        *)
StartIsOverruled ==
  LET s == writer[Starter]
      n == s.node
  IN  s.pc = "set" =>
        \/ s.position = level[n] \/ s.label < mgr[n].rev
        \/ \E w \in Cascader : WillWrite(w, n, s.label + 1)

(* Start has installed its ranking, and has given n its position.          *)
StartInstalled == writer[Starter].pc \notin {"read", "install"}
StartGave(n) ==
  \/ writer[Starter].pc = "idle"
  \/ writer[Starter].pc \in {"sync", "set"} /\ n \notin writer[Starter].todo
       /\ ~(writer[Starter].pc = "set" /\ n = writer[Starter].node)

RevisionsBegin ==
  /\ writer[Starter].pc \in {"own", "sync", "set", "idle"} => revision > 0
  /\ Labelled(Starter) => writer[Starter].label > 0
  /\ \A n \in Node : StartGave(n) => mgr[n].rev > 0

(* The table is the installed one, or Start has overwritten it since.      *)
FreshOrStarts(t, index) ==
  StartInstalled =>
    \/ t = levels /\ index = installs
    \/ index < installs /\ levels = writer[Starter].read

CachesGetRight ==
  /\ \A w \in Cascader : writer[w].pc = "sync" =>
       /\ FreshOrStarts(writer[w].snapshot, writer[w].index)
       /\ \A n \in Node \ writer[w].todo :
            mgr[n].cache = CacheOf(writer[w].snapshot, writer[w].index, n, level[n])
  /\ placement = NoWriter /\ StartInstalled =>
       \A n \in Node :
         \/ mgr[n].cache = CacheOf(levels, installs, n, level[n])
         \/ mgr[n].cache.index < installs /\ levels = writer[Starter].read

IInv ==
  /\ TypeOK /\ OneCascade /\ InstallsAreCounted /\ LabelNeverAhead /\ NothingIsAhead
  /\ PositionsGetRight /\ StartIsOverruled /\ RevisionsBegin /\ CachesGetRight
-----------------------------------------------------------------------------
(* A set of numbers has a least one: the initial segments they end are     *)
(* finite sets, which strict inclusion orders well.                        *)
LEMMA LeastNumber ==
  ASSUME NEW S \in SUBSET Nat, S # {}
  PROVE  \E n \in S : \A m \in S : n <= m
<1>. DEFINE U == {0 .. n : n \in S}
<1>1. U \subseteq FiniteSubsetsOf(Nat) /\ U # {}
  <2>1. \A n \in S : IsFiniteSet(0 .. n) /\ 0 .. n \in SUBSET Nat
    BY FS_Interval
  <2>. QED
    BY <2>1 DEF FiniteSubsetsOf
<1>2. \E x \in U : \A y \in U : ~(<<y, x>> \in StrictSubsetOrdering(Nat))
  <2>. HIDE DEF U
  <2>. QED
    BY <1>1, FS_StrictSubsetOrderingWellFounded, WFMin
<1>3. PICK n \in S : \A m \in S : ~(<<0 .. m, 0 .. n>> \in StrictSubsetOrdering(Nat))
  BY <1>2
<1>4. ASSUME NEW m \in S, m < n
      PROVE  FALSE
  <2>. DEFINE a == 0 .. m
              b == 0 .. n
  <2>1. n \in Nat /\ m \in Nat
    OBVIOUS
  <2>2. a \in SUBSET Nat /\ b \in SUBSET Nat /\ a \subseteq b /\ a # b
    <3>1. n \in b /\ n \notin a
      BY <1>4, <2>1
    <3>. QED
      BY <1>4, <2>1, <3>1
  <2>3. ~(<<a, b>> \in StrictSubsetOrdering(Nat))
    BY <1>3
  <2>. HIDE DEF a, b
  <2>. QED
    BY <2>2, <2>3 DEF StrictSubsetOrdering
<1>. QED
  BY <1>3, <1>4

(* Division with remainder.                                                *)
LEMMA DivisionBounds ==
  ASSUME NEW a \in Nat, NEW b \in Nat \ {0}
  PROVE  a \div b \in 0 .. a
BY SMT

DepthOn(m, f) == f = [k \in 0 .. m |-> IF k = 0 THEN 0 ELSE f[(k - 1) \div Y] + 1]

(* The recursion that QueueLevel stands for has a solution: by the least   *)
(* bound for which it would not.                                           *)
LEMMA DepthExists ==
  ASSUME NEW m \in Nat
  PROVE  \E f : DepthOn(m, f)
<1>. DEFINE Bad == {n \in Nat : ~ \E f : DepthOn(n, f)}
<1>1. SUFFICES ASSUME Bad # {} PROVE FALSE
  OBVIOUS
<1>2. PICK n \in Bad : \A k \in Bad : n <= k
  BY <1>1, LeastNumber
<1>3. n # 0
  <2>1. DepthOn(0, [k \in 0 .. 0 |-> 0])
    BY DEF DepthOn
  <2>. QED BY <2>1
<1>4. PICK f : DepthOn(n - 1, f)
  <2>1. n - 1 \in Nat /\ n - 1 \notin Bad
    BY <1>2, <1>3
  <2>. QED BY <2>1
<1>. DEFINE g == [k \in 0 .. n |-> IF k < n THEN f[k] ELSE f[(n - 1) \div Y] + 1]
<1>5. ASSUME NEW k \in 0 .. n
      PROVE  g[k] = IF k = 0 THEN 0 ELSE g[(k - 1) \div Y] + 1
  <2>1. CASE k = 0
    BY <1>3, <1>4, <2>1 DEF DepthOn
  <2>2. CASE k # 0
    <3>1. (k - 1) \div Y \in 0 .. (k - 1)
      <4>1. k - 1 \in Nat
        BY <2>2
      <4>. QED
        BY <4>1, CapacityAssumption, DivisionBounds
    <3>2. (k - 1) \div Y \in 0 .. n /\ (k - 1) \div Y < n
      BY <3>1
    <3>3. g[(k - 1) \div Y] = f[(k - 1) \div Y]
      BY <3>2
    <3>4. CASE k = n
      BY <2>2, <3>3, <3>4
    <3>5. CASE k < n
      <4>1. f[k] = f[(k - 1) \div Y] + 1
        <5>1. k \in 0 .. (n - 1)
          BY <3>5
        <5>. QED
          BY <1>4, <2>2, <5>1 DEF DepthOn
      <4>. QED
        BY <2>2, <3>3, <3>5, <4>1
    <3>. QED
      BY <3>4, <3>5
  <2>. QED BY <2>1, <2>2
<1>6. DepthOn(n, g)
  <2>1. g = [k \in 0 .. n |-> g[k]]
    OBVIOUS
  <2>. HIDE DEF g
  <2>. QED
    BY <1>5, <2>1 DEF DepthOn
<1>. QED
  BY <1>6

(* No leader is deeper than its place in the queue.                        *)
LEMMA QueueLevelBounds ==
  ASSUME NEW m \in Nat
  PROVE  QueueLevel(m)[m] \in 0 .. m
<1>1. DepthOn(m, QueueLevel(m))
  BY DepthExists DEF QueueLevel, DepthOn
<1>. DEFINE f == QueueLevel(m)
            Bad == {k \in 0 .. m : f[k] \notin 0 .. k}
<1>2. \A k \in 0 .. m : f[k] = IF k = 0 THEN 0 ELSE f[(k - 1) \div Y] + 1
  BY <1>1 DEF DepthOn
<1>3. ASSUME Bad # {}
      PROVE  FALSE
  <2>. HIDE DEF f
  <2>1. PICK k \in Bad : \A j \in Bad : k <= j
    <3>1. Bad \in SUBSET Nat
      OBVIOUS
    <3>. HIDE DEF Bad
    <3>. QED BY <1>3, <3>1, LeastNumber
  <2>2. k # 0
    BY <1>2
  <2>3. (k - 1) \div Y \in 0 .. (k - 1)
    <3>1. k - 1 \in Nat
      BY <2>2
    <3>. QED
      BY <3>1, CapacityAssumption, DivisionBounds
  <2>4. f[(k - 1) \div Y] \in 0 .. ((k - 1) \div Y)
    BY <2>1, <2>3
  <2>. QED
    BY <1>2, <2>1, <2>2, <2>3, <2>4
<1>. QED
  BY <1>3

LEMMA LevelAtRankBounds ==
  ASSUME NEW i \in Nat \ {0}
  PROVE  LevelAtRank(i) \in 0 .. (i - 1)
<1>1. CASE i = 1
  BY <1>1 DEF LevelAtRank
<1>2. CASE i # 1
  <2>. DEFINE g == GroupOf(i)
  <2>1. i - 2 \in Nat /\ Y + N \in Nat \ {0}
    BY <1>2, CapacityAssumption
  <2>2. g \in 0 .. (i - 2)
    BY <2>1, DivisionBounds DEF GroupOf
  <2>3. QueueLevel(g)[g] \in 0 .. g
    <3>. HIDE DEF g
    <3>. QED BY <2>1, <2>2, QueueLevelBounds
  <2>4. LevelAtRank(i) \in {QueueLevel(g)[g], QueueLevel(g)[g] + 1}
    BY <1>2, <2>3 DEF LevelAtRank
  <2>. HIDE DEF g
  <2>. QED BY <2>1, <2>2, <2>3, <2>4
<1>. QED BY <1>1, <1>2
-----------------------------------------------------------------------------
(* The ranking of one table.                                               *)
Ranked(t) == \A p \in Node : t[p].q \in Int

(* betterPeer is a strict total order, whatever the qualities.             *)
LEMMA BetterIsAnOrder ==
  ASSUME NEW t, Ranked(t)
  PROVE  /\ \A a \in Node : ~Better(t, a, a)
         /\ \A a, b \in Node : a # b => Better(t, a, b) \/ Better(t, b, a)
         /\ \A a, b, c \in Node : Better(t, a, b) /\ Better(t, b, c) => Better(t, a, c)
BY NodeAssumption DEF Ranked, Better

(* Any group of nodes has its best, whom fewer are ahead of than of anyone *)
(* else.                                                                   *)
LEMMA BestExists ==
  ASSUME NEW t, Ranked(t), NEW S \in SUBSET Node, S # {}
  PROVE  \E p \in S : \A o \in S \ {p} : Better(t, p, o)
<1>. DEFINE Ahead(p) == {o \in S : Better(t, o, p)}
            C == {Cardinality(Ahead(p)) : p \in S}
<1>1. \A p \in S : IsFiniteSet(Ahead(p)) /\ Cardinality(Ahead(p)) \in Nat
  <2>1. \A p \in S : Ahead(p) \in SUBSET Node
    OBVIOUS
  <2>. HIDE DEF Ahead
  <2>. QED
    BY <2>1, NodeAssumption, FS_Subset, FS_CardinalityType
<1>2. PICK c \in C : \A d \in C : c <= d
  <2>1. C \in SUBSET Nat /\ C # {}
    <3>. HIDE DEF Ahead
    <3>. QED BY <1>1
  <2>. HIDE DEF C
  <2>. QED BY <2>1, LeastNumber
<1>3. PICK p \in S : c = Cardinality(Ahead(p))
  <2>. HIDE DEF Ahead
  <2>. QED BY <1>2
<1>4. ASSUME NEW o \in S \ {p}, Better(t, o, p)
      PROVE  FALSE
  <2>1. /\ Ahead(o) \in SUBSET Ahead(p) /\ o \in Ahead(p) /\ o \notin Ahead(o)
    BY <1>4, BetterIsAnOrder
  <2>2. Cardinality(Ahead(p)) <= Cardinality(Ahead(o))
    <3>. HIDE DEF Ahead
    <3>. QED BY <1>2, <1>3
  <2>. HIDE DEF Ahead
  <2>. QED
    BY <1>1, <2>1, <2>2, FS_Subset
<1>. QED
  BY <1>4, BetterIsAnOrder

LEMMA LeaderIsTheBest ==
  ASSUME NEW t, Ranked(t), NEW l, Members(t, l) # {}
  PROVE  Leader(t, l) \in Members(t, l) /\ Leads(t, Leader(t, l))
<1>1. \E p \in Members(t, l) : Leads(t, p)
  <2>1. Members(t, l) \in SUBSET Node /\ \A p \in Members(t, l) : t[p].level = l
    BY DEF Members
  <2>2. PICK p \in Members(t, l) : \A o \in Members(t, l) \ {p} : Better(t, p, o)
    BY <2>1, BestExists
  <2>. QED
    BY <2>1, <2>2 DEF Leads
<1>. QED
  BY <1>1 DEF Leader

(* No two of a level have the same place, so there are no more candidates  *)
(* than places for them.                                                   *)
LEMMA CandidatesAreFew ==
  ASSUME NEW t, Ranked(t), NEW l
  PROVE  Candidates(t, l) \in FewNodes
<1>. DEFINE M == Members(t, l)
            Ahead(p) == {o \in M : Better(t, o, p)}
            K == Candidates(t, l)
            f == [p \in K |-> Cardinality(Ahead(p))]
<1>1. M \in SUBSET Node /\ K \in SUBSET M /\ \A p \in M : Place(t, p) = Cardinality(Ahead(p))
  BY DEF Members, Candidates, Place
<1>2. \A p \in M : IsFiniteSet(Ahead(p)) /\ Cardinality(Ahead(p)) \in Nat
  <2>1. \A p \in M : Ahead(p) \in SUBSET Node
    BY <1>1
  <2>. HIDE DEF Ahead, M
  <2>. QED
    BY <2>1, NodeAssumption, FS_Subset, FS_CardinalityType
<1>3. ASSUME NEW a \in M, NEW b \in M, Better(t, a, b)
      PROVE  Cardinality(Ahead(a)) # Cardinality(Ahead(b))
  <2>1. Ahead(a) \in SUBSET Ahead(b) /\ a \in Ahead(b) /\ a \notin Ahead(a)
    BY <1>1, <1>3, BetterIsAnOrder
  <2>. HIDE DEF Ahead, M
  <2>. QED
    BY <1>2, <2>1, FS_Subset
<1>4. f \in Injection(K, 1 .. N)
  <2>1. f \in [K -> 1 .. N]
    <3>1. \A p \in K : Cardinality(Ahead(p)) \in 1 .. N
      BY <1>1 DEF Candidates
    <3>. HIDE DEF Ahead, K
    <3>. QED BY <3>1
  <2>2. ASSUME NEW a \in K, NEW b \in K, a # b
        PROVE  f[a] # f[b]
    <3>1. Better(t, a, b) \/ Better(t, b, a)
      BY <1>1, <2>2, BetterIsAnOrder
    <3>2. a \in M /\ b \in M
      BY <1>1
    <3>3. Cardinality(Ahead(a)) # Cardinality(Ahead(b))
      BY <1>3, <3>1, <3>2
    <3>. HIDE DEF Ahead, K, M
    <3>. QED
      BY <3>3
  <2>. HIDE DEF f, K
  <2>. QED
    BY <2>1, <2>2 DEF Injection, IsInjective
<1>5. IsFiniteSet(1 .. N) /\ Cardinality(1 .. N) = N
  BY CapacityAssumption, FS_Interval
<1>6. Cardinality(K) <= N
  <2>. HIDE DEF f, K
  <2>. QED
    BY <1>4, <1>5, FS_Injection
<1>. QED
  BY <1>1, <1>6 DEF FewNodes

LEMMA FewerAreFew ==
  ASSUME NEW S \in FewNodes, NEW n
  PROVE  S \ {n} \in FewNodes
<1>1. IsFiniteSet(S) /\ S \in SUBSET Node /\ Cardinality(S) <= N
  BY NodeAssumption, FS_Subset DEF FewNodes
<1>2. Cardinality(S \ {n}) <= Cardinality(S) /\ IsFiniteSet(S \ {n})
  BY <1>1, FS_Subset
<1>3. Cardinality(S) \in Nat /\ Cardinality(S \ {n}) \in Nat /\ N \in Nat
  BY <1>1, <1>2, FS_CardinalityType, CapacityAssumption
<1>. QED
  BY <1>1, <1>2, <1>3 DEF FewNodes

(* What the sync writes is a cache, of the capacity the document gives it. *)
LEMMA CacheOfType ==
  ASSUME NEW t \in Table, NEW index \in Nat, NEW n \in Node, NEW l \in Level
  PROVE  CacheOf(t, index, n, l) \in Cache
<1>1. Ranked(t)
  BY QualityAssumption DEF Table, Ranked
<1>2. \A u : Candidates(t, u) \ {n} \in FewNodes
  BY <1>1, CandidatesAreFew, FewerAreFew
<1>3. \A u \in UpperLevels(t, l) \ {0} : u \in Level \ {0} /\ Leader(t, u) \in Node
  <2>1. Cardinality(Node) \in Nat
    BY NodeAssumption, FS_CardinalityType
  <2>2. \A u \in UpperLevels(t, l) : u \in 0 .. l - 1 /\ Members(t, u) # {}
    BY DEF UpperLevels
  <2>3. \A u \in UpperLevels(t, l) : Leader(t, u) \in Node
    BY <1>1, <2>2, LeaderIsTheBest DEF Members
  <2>. QED
    BY <2>1, <2>2, <2>3 DEF Level
<1>. DEFINE entry(u) ==
              [level |-> u, leader |-> Leader(t, u), candidates |-> Candidates(t, u) \ {n}]
            upper    == {entry(u) : u \in UpperLevels(t, l) \ {0}}
<1>4. upper \subseteq [level : Level \ {0}, leader : Node, candidates : FewNodes]
  BY <1>2, <1>3
<1>. QED
  <2>. HIDE DEF upper
  <2>1. CacheOf(t, index, n, l) =
          [same |-> Candidates(t, l) \ {n}, upper |-> upper, index |-> index]
    BY DEF CacheOf, upper
  <2>. QED
    BY <1>2, <1>4, <2>1 DEF Cache

LEMMA FirstIsOne ==
  ASSUME NEW S \in SUBSET Node, S # {}
  PROVE  First(S) \in S
BY NodeAssumption, LeastNumber DEF First

(* The levels a cascade assigns.                                           *)
LEMMA TreeLevelsType ==
  ASSUME q \in [Node -> Quality], level \in [Node -> Level]
  PROVE  Peers \in Table /\ TreeLevels \in [Node -> Level]
<1>1. Peers \in Table
  BY DEF Peers, Table
<1>2. Ranked(Peers)
  BY <1>1, QualityAssumption DEF Table, Ranked
<1>3. ASSUME NEW n \in Node
      PROVE  LevelAtRank(1 + Cardinality({o \in Node : Better(Peers, o, n)})) \in Level
  <2>. DEFINE A == {o \in Node : Better(Peers, o, n)}
  <2>1. A \in SUBSET Node /\ n \notin A
    BY <1>2, BetterIsAnOrder
  <2>2. /\ IsFiniteSet(A) /\ Cardinality(A) \in Nat /\ Cardinality(Node) \in Nat
        /\ Cardinality(A) < Cardinality(Node)
    <3>. HIDE DEF A
    <3>1. /\ IsFiniteSet(A) /\ Cardinality(A) <= Cardinality(Node)
          /\ Cardinality(A) # Cardinality(Node)
      BY <2>1, NodeAssumption, FS_Subset
    <3>2. Cardinality(A) \in Nat /\ Cardinality(Node) \in Nat
      BY <3>1, NodeAssumption, FS_CardinalityType
    <3>. QED
      BY <3>1, <3>2
  <2>3. LevelAtRank(1 + Cardinality(A)) \in 0 .. Cardinality(A)
    <3>. HIDE DEF A
    <3>. QED
      BY <2>2, LevelAtRankBounds
  <2>. HIDE DEF A
  <2>4. LevelAtRank(1 + Cardinality(A)) \in Level
    BY <2>2, <2>3 DEF Level
  <2>. QED
    BY <2>4 DEF A
<1>. QED
  BY <1>1, <1>3 DEF TreeLevels

-----------------------------------------------------------------------------
(* Types.                                                                  *)
Record == [pc : {"idle", "read", "install", "bump", "own", "sync", "set"},
           read : Table, snapshot : Table, label : Nat, index : Nat,
           todo : SUBSET Node, node : Node, position : Level]
Manager == [rev : Nat, level : Level, cache : Cache]

LEMMA LevelZero == 0 \in Level /\ Level \subseteq Nat
BY NodeAssumption, FS_CardinalityType DEF Level

LEMMA NoCacheType == NoCache \in Cache
<1>1. {} \in FewNodes
  BY FS_EmptySet, CapacityAssumption DEF FewNodes
<1>. QED
  BY <1>1 DEF NoCache, Cache

LEMMA IdleType ==
  ASSUME q \in [Node -> Quality]
  PROVE  Idle \in Record /\ Idle.pc = "idle"
<1>1. Quality # {}
  BY NodeAssumption
<1>2. NoPeers \in Table
  BY <1>1, LevelZero DEF NoPeers, Table
<1>3. (CHOOSE n \in Node : TRUE) \in Node
  BY NodeAssumption
<1>. QED
  BY <1>2, <1>3, LevelZero DEF Idle, Record

LEMMA SetPositionType ==
  ASSUME NEW m \in Manager, NEW l \in Level, NEW rev \in Nat
  PROVE  /\ SetPosition(m, l, rev) \in Manager
         /\ SetPosition(m, l, rev).cache = m.cache
         /\ SetPosition(m, l, rev).rev = IF rev < m.rev THEN m.rev ELSE rev
         /\ SetPosition(m, l, rev).level = IF rev < m.rev THEN m.level ELSE l
BY DEF SetPosition, Manager

(* The turn of a node: its manager after the sync.                         *)
LEMMA SyncedManager ==
  ASSUME TypeOK, NEW w \in Cascader, SyncNode(w)
  PROVE  LET n == First(writer[w].todo)
         IN  /\ n \in writer[w].todo /\ n \in Node /\ mgr' \in [Node -> Manager]
             /\ \A o \in Node \ {n} : mgr'[o] = mgr[o]
             /\ mgr'[n].cache = CacheOf(writer[w].snapshot, writer[w].index, n, level[n])
             /\ mgr'[n].rev = IF writer[w].label < mgr[n].rev THEN mgr[n].rev ELSE writer[w].label
             /\ mgr'[n].level = IF writer[w].label < mgr[n].rev THEN mgr[n].level ELSE level[n]
<1>. DEFINE n == First(writer[w].todo)
            m == SetPosition(mgr[n], level[n], writer[w].label)
            c == CacheOf(writer[w].snapshot, writer[w].index, n, level[n])
<1>1. writer[w] \in Record /\ mgr \in [Node -> Manager] /\ level \in [Node -> Level]
  BY DEF TypeOK, Writer, Record, Manager
<1>2. n \in writer[w].todo /\ n \in Node
  BY <1>1, FirstIsOne DEF SyncNode, Record
<1>3. /\ m \in Manager
      /\ m.rev = IF writer[w].label < mgr[n].rev THEN mgr[n].rev ELSE writer[w].label
      /\ m.level = IF writer[w].label < mgr[n].rev THEN mgr[n].level ELSE level[n]
  <2>1. mgr[n] \in Manager /\ level[n] \in Level /\ writer[w].label \in Nat
    BY <1>1, <1>2 DEF Record
  <2>. HIDE DEF n
  <2>. QED BY <2>1, SetPositionType
<1>4. c \in Cache
  <2>1. writer[w].snapshot \in Table /\ writer[w].index \in Nat /\ level[n] \in Level
    BY <1>1, <1>2 DEF Record
  <2>. HIDE DEF n
  <2>. QED BY <1>2, <2>1, CacheOfType
<1>5. mgr' = [mgr EXCEPT ![n] = [m EXCEPT !.cache = c]]
  BY DEF SyncNode
<1>. HIDE DEF n, m, c
<1>6. /\ mgr' \in [Node -> Manager] /\ \A o \in Node \ {n} : mgr'[o] = mgr[o]
      /\ mgr'[n].cache = c /\ mgr'[n].rev = m.rev /\ mgr'[n].level = m.level
  BY <1>1, <1>2, <1>3, <1>4, <1>5 DEF Manager
<1>. QED
  BY <1>2, <1>3, <1>6 DEF n, c

(* Start's write of a position.                                            *)
LEMMA StarterSetsOne ==
  ASSUME TypeOK, StarterSets
  PROVE  LET s == writer[Starter]
             n == s.node
         IN  /\ n \in Node /\ mgr' \in [Node -> Manager]
             /\ \A o \in Node \ {n} : mgr'[o] = mgr[o]
             /\ mgr'[n].cache = mgr[n].cache
             /\ mgr'[n].rev = IF s.label < mgr[n].rev THEN mgr[n].rev ELSE s.label
             /\ mgr'[n].level = IF s.label < mgr[n].rev THEN mgr[n].level ELSE s.position
<1>. DEFINE s == writer[Starter]
            n == s.node
            m == SetPosition(mgr[n], s.position, s.label)
<1>1. s \in Record /\ mgr \in [Node -> Manager]
  BY DEF TypeOK, Writer, Record, Manager
<1>2. n \in Node /\ s.position \in Level /\ s.label \in Nat
  BY <1>1 DEF Record
<1>3. mgr' = [mgr EXCEPT ![n] = m]
  BY DEF StarterSets
<1>4. /\ m \in Manager /\ m.cache = mgr[n].cache
      /\ m.rev = IF s.label < mgr[n].rev THEN mgr[n].rev ELSE s.label
      /\ m.level = IF s.label < mgr[n].rev THEN mgr[n].level ELSE s.position
  <2>. HIDE DEF n, s
  <2>. QED BY <1>1, <1>2, SetPositionType
<1>. HIDE DEF n, m
<1>. QED
  BY <1>1, <1>2, <1>3, <1>4 DEF n

LEMMA ManagersKeep ==
  ASSUME TypeOK, [Next]_vars
  PROVE  mgr' \in [Node -> Manager] /\ level' \in [Node -> Level]
<1>0. mgr \in [Node -> Manager] /\ level \in [Node -> Level] /\ q \in [Node -> Quality]
  BY DEF TypeOK, Manager
<1>1. ASSUME NEW w \in Cascader, Take(w)
      PROVE  mgr' \in [Node -> Manager] /\ level' \in [Node -> Level]
  <2>1. level' \in [Node -> Level]
    BY <1>0, <1>1, TreeLevelsType DEF Take
  <2>. QED
    BY <1>0, <1>1, <2>1 DEF Take, Manager
<1>2. ASSUME NEW w \in Cascader, SyncNode(w)
      PROVE  mgr' \in [Node -> Manager] /\ level' \in [Node -> Level]
  BY <1>0, <1>2, SyncedManager DEF SyncNode
<1>3. ASSUME StarterSets
      PROVE  mgr' \in [Node -> Manager] /\ level' \in [Node -> Level]
  BY <1>0, <1>3, StarterSetsOne DEF StarterSets
<1>4. ASSUME UNCHANGED <<mgr, level>>
      PROVE  mgr' \in [Node -> Manager] /\ level' \in [Node -> Level]
  BY <1>0, <1>4
<1>. QED
  BY <1>1, <1>2, <1>3, <1>4
  DEF Next, Rebuild, Read, Install, Bump, Own, Release, StarterReads, Drift, vars

LEMMA RecordsChange ==
  ASSUME NEW s \in Record,
         NEW pc \in {"idle", "read", "install", "bump", "own", "sync", "set"}, NEW t \in Table, NEW n
  PROVE  /\ [s EXCEPT !.pc = pc] \in Record
         /\ [s EXCEPT !.pc = pc, !.read = t] \in Record
         /\ [s EXCEPT !.todo = @ \ {n}] \in Record
BY DEF Record

LEMMA WritersKeep ==
  ASSUME TypeOK, [Next]_vars
  PROVE  writer' \in [Writer -> Record]
<1>0. /\ writer \in [Writer -> Record] /\ level \in [Node -> Level] /\ q \in [Node -> Quality]
      /\ levels \in Table /\ revision \in Nat /\ installs \in Nat /\ Peers \in Table
  BY TreeLevelsType DEF TypeOK, Record
<1>1. ASSUME NEW w \in Cascader, Take(w)
      PROVE  writer' \in [Writer -> Record]
  BY <1>0, <1>1, RecordsChange DEF Take, Writer
<1>2. ASSUME NEW w \in Writer, Read(w)
      PROVE  writer' \in [Writer -> Record]
  <2>1. writer' = [writer EXCEPT ![w] = [writer[w] EXCEPT !.pc = "install", !.read = Peers]]
    BY <1>2 DEF Read
  <2>. QED
    BY <1>0, <2>1, RecordsChange
<1>3. ASSUME NEW w \in Writer, Install(w) \/ Bump(w)
      PROVE  writer' \in [Writer -> Record]
  <2>1. PICK pc \in {"bump", "own"} : writer' = [writer EXCEPT ![w] = [writer[w] EXCEPT !.pc = pc]]
    BY <1>3 DEF Install, Bump
  <2>2. [writer[w] EXCEPT !.pc = pc] \in Record
    BY <1>0, RecordsChange
  <2>. QED
    BY <1>0, <2>1, <2>2
<1>4. ASSUME NEW w \in Writer, Own(w)
      PROVE  writer' \in [Writer -> Record]
  <2>1. writer[w] \in Record
    BY <1>0, <1>4
  <2>2. writer' = [writer EXCEPT ![w] = [writer[w] EXCEPT !.pc = "sync", !.snapshot = levels,
                     !.label = revision, !.index = installs, !.todo = Node]]
    BY <1>0, <1>4 DEF Own
  <2>3. [writer[w] EXCEPT !.pc = "sync", !.snapshot = levels, !.label = revision,
                          !.index = installs, !.todo = Node] \in Record
    BY <1>0, <2>1 DEF Record
  <2>. QED
    BY <1>0, <2>2, <2>3
<1>5. ASSUME NEW w \in Cascader, SyncNode(w)
      PROVE  writer' \in [Writer -> Record]
  BY <1>0, <1>5, RecordsChange DEF SyncNode, Writer
<1>6. ASSUME NEW w \in Cascader, Release(w)
      PROVE  writer' \in [Writer -> Record]
  BY <1>0, <1>6, IdleType DEF Release
<1>7. ASSUME StarterReads
      PROVE  writer' \in [Writer -> Record]
  <2>. DEFINE n == First(writer[Starter].todo)
  <2>1. n \in Node /\ level[n] \in Level
    BY <1>0, <1>7, FirstIsOne DEF StarterReads, Record, Writer
  <2>2. writer' = [writer EXCEPT ![Starter] = [writer[Starter] EXCEPT !.pc = "set",
                     !.todo = @ \ {n}, !.node = n, !.position = level[n]]]
    BY <1>7 DEF StarterReads
  <2>3. writer[Starter] \in Record
    BY <1>0 DEF Writer
  <2>. HIDE DEF n
  <2>4. [writer[Starter] EXCEPT !.pc = "set", !.todo = @ \ {n}, !.node = n,
                                !.position = level[n]] \in Record
    BY <2>1, <2>3 DEF Record
  <2>. QED
    BY <1>0, <2>2, <2>4
<1>8. ASSUME StarterSets
      PROVE  writer' \in [Writer -> Record]
  BY <1>0, <1>8, RecordsChange DEF StarterSets, Writer
<1>9. ASSUME UNCHANGED writer
      PROVE  writer' \in [Writer -> Record]
  BY <1>0, <1>9
<1>. QED
  BY <1>1, <1>2, <1>3, <1>4, <1>5, <1>6, <1>7, <1>8, <1>9 DEF Next, Rebuild, Drift, vars

LEMMA TypesKeep ==
  ASSUME TypeOK, [Next]_vars
  PROVE  TypeOK'
<1>1. q' \in [Node -> Quality]
  <2>1. q \in [Node -> Quality]
    BY DEF TypeOK
  <2>2. ASSUME NEW n \in Node, Drift(n)
        PROVE  q' \in [Node -> Quality]
    BY <2>1, <2>2 DEF Drift
  <2>. QED
    BY <2>1, <2>2
    DEF Next, Take, SyncNode, Release, Rebuild, Read, Install, Bump, Own, StarterReads, StarterSets,
        vars
<1>2. /\ levels' \in Table /\ revision' \in Nat /\ installs' \in Nat /\ drifts' \in Nat
      /\ placement' \in Cascader \cup {NoWriter}
  <2>1. /\ levels \in Table /\ revision \in Nat /\ installs \in Nat /\ drifts \in Nat
        /\ placement \in Cascader \cup {NoWriter} /\ \A w \in Writer : writer[w].read \in Table
    BY DEF TypeOK
  <2>2. levels' \in Table /\ placement' \in Cascader \cup {NoWriter}
    BY <2>1
    DEF Next, Take, SyncNode, Release, Rebuild, Read, Install, Bump, Own, StarterReads, StarterSets,
        Drift, vars
  <2>3. /\ revision' = revision \/ revision' = revision + 1
        /\ installs' = installs \/ installs' = installs + 1
        /\ drifts' = drifts \/ drifts' = drifts + 1
    <3>1. ASSUME NEW w \in Writer, Rebuild(w)
          PROVE  /\ revision' = revision \/ revision' = revision + 1
                 /\ installs' = installs \/ installs' = installs + 1
                 /\ drifts' = drifts
      BY <3>1 DEF Rebuild, Read, Install, Bump, Own
    <3>. QED
      BY <3>1, Zenon
      DEF Next, Take, SyncNode, Release, StarterReads, StarterSets, Drift, vars
  <2>. QED
    BY <2>1, <2>2, <2>3
<1>. QED
  BY <1>1, <1>2, ManagersKeep, WritersKeep DEF TypeOK, Manager, Record

-----------------------------------------------------------------------------
(* The records after a step of the writer w: whose they are and what they  *)
(* have, action by action.                                                 *)
OthersRest(w) == \A v \in Writer \ {w} : writer'[v] = writer[v]

LEMMA TakeMoves ==
  ASSUME TypeOK, NEW w \in Cascader, Take(w)
  PROVE  /\ writer' = [writer EXCEPT ![w].pc = "read"] /\ OthersRest(w)
         /\ writer[w].pc = "idle" /\ writer'[w].pc = "read"
BY DEF TypeOK, Take, OthersRest, Writer

LEMMA RebuildMoves ==
  ASSUME TypeOK, NEW w \in Writer, Rebuild(w)
  PROVE  /\ OthersRest(w) /\ UNCHANGED <<mgr, level, placement>>
         /\ \/ /\ writer[w].pc = "read" /\ writer'[w].pc = "install"
               /\ UNCHANGED <<levels, revision, installs>>
            \/ /\ writer[w].pc = "install" /\ writer'[w].pc = "bump"
               /\ writer'[w].read = writer[w].read
               /\ levels' = writer[w].read /\ installs' = installs + 1 /\ revision' = revision
            \/ /\ writer[w].pc = "bump" /\ writer'[w].pc = "own" /\ writer'[w].read = writer[w].read
               /\ revision' = revision + 1 /\ UNCHANGED <<levels, installs>>
            \/ /\ writer[w].pc = "own" /\ writer'[w].pc = "sync" /\ writer'[w].read = writer[w].read
               /\ writer'[w].label = revision /\ writer'[w].index = installs
               /\ writer'[w].snapshot = levels /\ writer'[w].todo = Node
               /\ UNCHANGED <<levels, revision, installs>>
<1>0. writer \in [Writer -> Record]
  BY DEF TypeOK, Record
<1>1. CASE Read(w)
  BY <1>0, <1>1 DEF Read, OthersRest, Record
<1>2. CASE Install(w)
  BY <1>0, <1>2 DEF Install, OthersRest, Record
<1>3. CASE Bump(w)
  BY <1>0, <1>3 DEF Bump, OthersRest, Record
<1>4. CASE Own(w)
  <2>1. writer' = [writer EXCEPT ![w] = [writer[w] EXCEPT !.pc = "sync", !.snapshot = levels,
                     !.label = revision, !.index = installs, !.todo = Node]]
    BY <1>0, <1>4 DEF Own
  <2>2. writer'[w] = [writer[w] EXCEPT !.pc = "sync", !.snapshot = levels, !.label = revision,
                                       !.index = installs, !.todo = Node]
    BY <1>0, <2>1
  <2>3. writer[w] \in Record
    BY <1>0
  <2>4. OthersRest(w) /\ writer[w].pc = "own"
        /\ UNCHANGED <<mgr, level, placement, levels, revision, installs>>
    BY <1>0, <1>4, <2>1 DEF Own, OthersRest
  <2>5. /\ writer'[w].pc = "sync" /\ writer'[w].read = writer[w].read
        /\ writer'[w].label = revision /\ writer'[w].index = installs
        /\ writer'[w].snapshot = levels /\ writer'[w].todo = Node
    BY <2>2, <2>3 DEF Record
  <2>. QED BY <2>4, <2>5
<1>. QED
  BY <1>1, <1>2, <1>3, <1>4 DEF Rebuild

LEMMA SyncMoves ==
  ASSUME TypeOK, NEW w \in Cascader, SyncNode(w)
  PROVE  /\ OthersRest(w) /\ writer[w].pc = "sync" /\ writer'[w].pc = "sync"
         /\ writer'[w].todo = writer[w].todo \ {First(writer[w].todo)}
         /\ writer'[w].label = writer[w].label /\ writer'[w].index = writer[w].index
         /\ writer'[w].snapshot = writer[w].snapshot
         /\ UNCHANGED <<level, levels, revision, installs, placement>>
<1>1. writer \in [Writer -> Record] /\ w \in Writer
  BY DEF TypeOK, Record, Writer
<1>. QED
  BY <1>1 DEF SyncNode, OthersRest, Record

LEMMA ReleaseMoves ==
  ASSUME TypeOK, NEW w \in Cascader, Release(w)
  PROVE  /\ OthersRest(w) /\ writer[w].pc = "sync" /\ writer[w].todo = {} /\ writer'[w].pc = "idle"
         /\ placement' = NoWriter
         /\ UNCHANGED <<level, mgr, levels, revision, installs>>
BY IdleType DEF TypeOK, Release, OthersRest, Writer

LEMMA StarterReadsMoves ==
  ASSUME TypeOK, StarterReads
  PROVE  LET s == writer[Starter]
             n == First(s.todo)
         IN  /\ OthersRest(Starter)
             /\ UNCHANGED <<level, mgr, levels, revision, installs, placement>>
             /\ s.pc = "sync" /\ n \in s.todo /\ n \in Node
             /\ s \in Record
             /\ writer'[Starter] = [s EXCEPT !.pc = "set", !.todo = @ \ {n}, !.node = n,
                                            !.position = level[n]]
<1>. DEFINE s == writer[Starter]
            n == First(s.todo)
<1>1. s \in Record /\ writer \in [Writer -> Record] /\ Starter \in Writer
  BY DEF TypeOK, Record, Writer
<1>2. n \in s.todo /\ n \in Node
  BY <1>1, FirstIsOne DEF StarterReads, Record
<1>3. writer' = [writer EXCEPT ![Starter] = [s EXCEPT !.pc = "set", !.todo = @ \ {n}, !.node = n,
                                                      !.position = level[n]]]
  BY DEF StarterReads
<1>. HIDE DEF n
<1>. QED
  BY <1>1, <1>2, <1>3 DEF StarterReads, OthersRest, n

LEMMA StarterSetsMoves ==
  ASSUME TypeOK, StarterSets
  PROVE  /\ OthersRest(Starter) /\ UNCHANGED <<level, levels, revision, installs, placement>>
         /\ writer[Starter].pc = "set" /\ writer[Starter] \in Record
         /\ writer'[Starter] =
              [writer[Starter] EXCEPT !.pc = IF writer[Starter].todo = {} THEN "idle" ELSE "sync"]
BY DEF TypeOK, StarterSets, OthersRest, Writer, Record

LEMMA OneCascadeKeeps ==
  ASSUME TypeOK, OneCascade, [Next]_vars
  PROVE  OneCascade'
<1>0. NoWriter \notin Cascader /\ Starter \notin Cascader /\ Writer = Cascader \cup {Starter}
  BY WriterAssumption DEF Writer
<1>1. ASSUME NEW w \in Cascader, Take(w)
      PROVE  OneCascade'
  <2>1. placement = NoWriter /\ placement' = w
    BY <1>1 DEF Take
  <2>. QED
    BY <1>0, <1>1, <2>1, TakeMoves DEF OneCascade, OthersRest
<1>2. ASSUME NEW w \in Writer, Rebuild(w)
      PROVE  OneCascade'
  BY <1>0, <1>2, RebuildMoves DEF OneCascade, OthersRest
<1>3. ASSUME NEW w \in Cascader, SyncNode(w)
      PROVE  OneCascade'
  BY <1>0, <1>3, SyncMoves DEF OneCascade, OthersRest
<1>4. ASSUME NEW w \in Cascader, Release(w)
      PROVE  OneCascade'
  BY <1>0, <1>4, ReleaseMoves DEF OneCascade, OthersRest
<1>5. ASSUME StarterReads \/ StarterSets
      PROVE  OneCascade'
  <2>1. OthersRest(Starter) /\ UNCHANGED placement
    BY <1>5, StarterReadsMoves, StarterSetsMoves
  <2>. QED
    BY <1>0, <2>1 DEF OneCascade, OthersRest
<1>6. ASSUME UNCHANGED <<writer, placement>>
      PROVE  OneCascade'
  BY <1>6 DEF OneCascade
<1>. QED
  BY <1>1, <1>2, <1>3, <1>4, <1>5, <1>6 DEF Next, Drift, vars

LEMMA CountsKeep ==
  ASSUME TypeOK, OneCascade, InstallsAreCounted, [Next]_vars
  PROVE  InstallsAreCounted'
<1>0. /\ NoWriter \notin Cascader /\ Starter \notin Cascader /\ Writer = Cascader \cup {Starter}
      /\ revision \in Nat /\ installs \in Nat /\ installs = revision + Uncounted
      /\ placement \in Cascader \cup {NoWriter}
      /\ \A w \in Cascader : writer[w].pc # "idle" <=> placement = w
  BY WriterAssumption DEF Writer, TypeOK, InstallsAreCounted, OneCascade
<1>1. ASSUME NEW w \in Cascader, Take(w)
      PROVE  InstallsAreCounted'
  <2>1. placement = NoWriter /\ placement' = w /\ UNCHANGED <<revision, installs>>
    BY <1>1 DEF Take
  <2>. QED
    BY <1>0, <1>1, <2>1, TakeMoves DEF InstallsAreCounted, OthersRest, Uncounted
<1>2. ASSUME Rebuild(Starter)
      PROVE  InstallsAreCounted'
  BY <1>0, <1>2, RebuildMoves DEF InstallsAreCounted, OthersRest, Uncounted
<1>3. ASSUME NEW w \in Cascader, Rebuild(w)
      PROVE  InstallsAreCounted'
  <2>1. placement = w /\ placement' = w
    BY <1>0, <1>3, RebuildMoves
  <2>. QED
    BY <1>0, <1>3, <2>1, RebuildMoves DEF InstallsAreCounted, OthersRest, Uncounted
<1>4. ASSUME NEW w \in Cascader, SyncNode(w) \/ Release(w)
      PROVE  InstallsAreCounted'
  <2>1. /\ writer[w].pc = "sync" /\ placement = w /\ UNCHANGED <<revision, installs>>
        /\ placement' = NoWriter \/ (placement' = w /\ writer'[w].pc = "sync")
        /\ writer'[Starter] = writer[Starter]
    BY <1>0, <1>4, SyncMoves, ReleaseMoves DEF OthersRest
  <2>. QED
    BY <1>0, <2>1 DEF InstallsAreCounted, Uncounted
<1>5. ASSUME StarterReads \/ StarterSets
      PROVE  InstallsAreCounted'
  <2>1. /\ writer[Starter].pc \in {"sync", "set"} /\ writer'[Starter].pc \in {"set", "idle", "sync"}
        /\ OthersRest(Starter) /\ UNCHANGED <<placement, revision, installs>>
    BY <1>5, StarterReadsMoves, StarterSetsMoves DEF Record
  <2>. QED
    BY <1>0, <2>1 DEF InstallsAreCounted, OthersRest, Uncounted
<1>6. ASSUME UNCHANGED <<writer, placement, revision, installs>>
      PROVE  InstallsAreCounted'
  BY <1>6 DEF InstallsAreCounted, Uncounted
<1>. QED
  BY <1>0, <1>1, <1>2, <1>3, <1>4, <1>5, <1>6 DEF Next, Drift, vars

LEMMA LabelsKeep ==
  ASSUME TypeOK, OneCascade, InstallsAreCounted, LabelNeverAhead, [Next]_vars
  PROVE  LabelNeverAhead'
<1>0. /\ Starter \notin Cascader /\ Starter \in Writer /\ Writer = Cascader \cup {Starter}
      /\ revision <= installs
      /\ \A w \in Writer : Labelled(w) => writer[w].label <= writer[w].index
  BY WriterAssumption DEF Writer, LabelNeverAhead, Labelled
<1>1. revision' <= installs'
  BY TypesKeep, CountsKeep DEF TypeOK, InstallsAreCounted, Uncounted
<1>. DEFINE Same(w) == writer'[w].label = writer[w].label /\ writer'[w].index = writer[w].index
<1>2. \A w \in Writer : Labelled(w)' =>
        \/ writer'[w].label = revision /\ writer'[w].index = installs
        \/ Labelled(w) /\ writer'[w].label = writer[w].label /\ writer'[w].index = writer[w].index
  <2>1. ASSUME NEW w \in Cascader, Take(w) \/ SyncNode(w) \/ Release(w)
        PROVE  \A v \in Writer : Labelled(v)' => Labelled(v) /\ Same(v)
    BY <1>0, <2>1, TakeMoves, SyncMoves, ReleaseMoves DEF OthersRest, Labelled
  <2>2. ASSUME NEW w \in Writer, Rebuild(w)
        PROVE  \A v \in Writer : Labelled(v)' =>
                 \/ writer'[v].label = revision /\ writer'[v].index = installs
                 \/ Labelled(v) /\ Same(v)
    BY <2>2, RebuildMoves DEF OthersRest, Labelled
  <2>3. ASSUME StarterReads
        PROVE  \A v \in Writer : Labelled(v)' => Labelled(v) /\ Same(v)
    <3>1. Labelled(Starter) /\ Same(Starter) /\ OthersRest(Starter)
      BY <2>3, StarterReadsMoves DEF Record, Labelled
    <3>. QED
      BY <3>1 DEF OthersRest, Labelled
  <2>4. ASSUME StarterSets
        PROVE  \A v \in Writer : Labelled(v)' => Labelled(v) /\ Same(v)
    <3>1. Labelled(Starter) /\ Same(Starter) /\ OthersRest(Starter)
      BY <2>4, StarterSetsMoves DEF Record, Labelled
    <3>. QED
      BY <3>1 DEF OthersRest, Labelled
  <2>5. ASSUME UNCHANGED writer
        PROVE  \A v \in Writer : Labelled(v)' => Labelled(v) /\ Same(v)
    BY <2>5 DEF Labelled
  <2>. QED
    BY <2>1, <2>2, <2>3, <2>4, <2>5 DEF Next, Drift, vars
<1>. QED
  BY <1>0, <1>1, <1>2 DEF LabelNeverAhead, Labelled

LEMMA NothingGetsAhead ==
  ASSUME TypeOK, OneCascade, NothingIsAhead, [Next]_vars
  PROVE  NothingIsAhead'
<1>0. /\ Starter \notin Cascader /\ Writer = Cascader \cup {Starter}
      /\ revision \in Nat /\ installs \in Nat /\ mgr \in [Node -> Manager]
      /\ writer \in [Writer -> Record]
      /\ \A w \in Writer : Labelled(w) => writer[w].label <= revision /\ writer[w].index <= installs
      /\ \A n \in Node : mgr[n].rev <= revision /\ mgr[n].cache.index <= installs
      /\ \A w \in Cascader : writer[w].pc = "sync" =>
           \A n \in Node : mgr[n].cache.index <= writer[w].index
      /\ \A n \in Node : mgr[n].rev \in Nat /\ mgr[n].cache.index \in Nat
      /\ \A w \in Writer : writer[w].label \in Nat /\ writer[w].index \in Nat
  BY WriterAssumption DEF Writer, TypeOK, NothingIsAhead, Record, Manager, Cache
<1>1. ASSUME NEW w \in Cascader, Take(w)
      PROVE  NothingIsAhead'
  <2>1. /\ \A n \in Node : mgr'[n].rev = mgr[n].rev /\ mgr'[n].cache = mgr[n].cache
        /\ UNCHANGED <<revision, installs>>
    BY <1>0, <1>1 DEF Take, Manager
  <2>. QED
    BY <1>0, <1>1, <2>1, TakeMoves DEF NothingIsAhead, OthersRest, Labelled
<1>2. ASSUME NEW w \in Writer, Rebuild(w)
      PROVE  NothingIsAhead'
  BY <1>0, <1>2, RebuildMoves DEF NothingIsAhead, OthersRest, Labelled
<1>3. ASSUME NEW w \in Cascader, SyncNode(w)
      PROVE  NothingIsAhead'
  <2>. DEFINE n == First(writer[w].todo)
  <2>1. /\ n \in Node /\ \A o \in Node \ {n} : mgr'[o] = mgr[o]
        /\ mgr'[n].cache.index = writer[w].index
        /\ mgr'[n].rev = IF writer[w].label < mgr[n].rev THEN mgr[n].rev ELSE writer[w].label
    <3>1. \A t, i, o, l : CacheOf(t, i, o, l).index = i
      BY DEF CacheOf
    <3>. QED
      BY <1>3, <3>1, SyncedManager
  <2>2. \A v \in Cascader \ {w} : writer[v].pc # "sync"
    BY <1>3, SyncMoves DEF OneCascade
  <2>. HIDE DEF n
  <2>. QED
    BY <1>0, <1>3, <2>1, <2>2, SyncMoves DEF NothingIsAhead, OthersRest, Labelled
<1>4. ASSUME NEW w \in Cascader, Release(w)
      PROVE  NothingIsAhead'
  BY <1>0, <1>4, ReleaseMoves DEF NothingIsAhead, OthersRest, Labelled
<1>5. ASSUME StarterReads
      PROVE  NothingIsAhead'
  <2>1. /\ OthersRest(Starter) /\ UNCHANGED <<mgr, revision, installs>> /\ Labelled(Starter)
        /\ writer'[Starter].label = writer[Starter].label
        /\ writer'[Starter].index = writer[Starter].index
    BY <1>5, StarterReadsMoves DEF Record, Labelled
  <2>. QED
    BY <1>0, <2>1 DEF NothingIsAhead, OthersRest, Labelled
<1>6. ASSUME StarterSets
      PROVE  NothingIsAhead'
  <2>1. /\ OthersRest(Starter) /\ UNCHANGED <<revision, installs>> /\ Labelled(Starter)
        /\ writer'[Starter].label = writer[Starter].label
        /\ writer'[Starter].index = writer[Starter].index
    BY <1>6, StarterSetsMoves DEF Record, Labelled
  <2>2. \A n \in Node : /\ mgr'[n].cache = mgr[n].cache
                        /\ mgr'[n].rev \in {mgr[n].rev, writer[Starter].label}
    BY <1>6, StarterSetsOne
  <2>. QED
    BY <1>0, <2>1, <2>2 DEF NothingIsAhead, OthersRest, Labelled
<1>7. ASSUME UNCHANGED <<writer, mgr, revision, installs>>
      PROVE  NothingIsAhead'
  BY <1>7 DEF NothingIsAhead, Labelled
<1>. QED
  BY <1>1, <1>2, <1>3, <1>4, <1>5, <1>6, <1>7 DEF Next, Drift, vars

-----------------------------------------------------------------------------
(* Positions.                                                              *)

LEMMA BoundsGrow ==
  ASSUME NEW r \in Nat, NEW a \in Nat, NEW b \in {a, a + 1}
  PROVE  (r <= a + 1 => r <= b + 1) /\ (r <= a => r <= b)
OBVIOUS

(* What a cascade is to do it still is after a step of somebody else, and  *)
(* Start's bump does not make its label smaller.                           *)
LEMMA StillWillWrite ==
  ASSUME TypeOK, NEW w \in Cascader, NEW n \in Node, NEW r \in Nat,
         WillWrite(w, n, r), writer'[w] = writer[w], revision' \in {revision, revision + 1}
  PROVE  WillWrite(w, n, r)'
<1>1. revision \in Nat
  BY DEF TypeOK
<1>2. (r <= revision + 1 => r <= revision' + 1) /\ (r <= revision => r <= revision')
  BY <1>1, BoundsGrow
<1>. QED
  BY <1>2, Zenon DEF WillWrite

LEMMA RebuildStillWillWrite ==
  ASSUME TypeOK, OneCascade, NEW w \in Cascader, NEW n \in Node, NEW r \in Nat, r <= revision + 1,
         WillWrite(w, n, r), NEW v \in Writer, Rebuild(v)
  PROVE  WillWrite(w, n, r)'
<1>0. revision \in Nat /\ Writer = Cascader \cup {Starter}
  BY DEF TypeOK, Writer
<1>1. CASE v = w
  BY <1>0, <1>1, RebuildMoves DEF WillWrite
<1>2. CASE v # w
  BY <1>0, <1>2, RebuildMoves, StillWillWrite DEF OthersRest
<1>. QED BY <1>1, <1>2

LEMMA PositionsKeep ==
  ASSUME TypeOK, OneCascade, NothingIsAhead, PositionsGetRight, StartIsOverruled, [Next]_vars
  PROVE  PositionsGetRight'
<1>. SUFFICES ASSUME NEW n \in Node
              PROVE  \/ mgr'[n].level = level'[n]
                     \/ \E r \in Nat : r = mgr'[n].rev /\ \E w \in Cascader : WillWrite(w, n, r)'
  BY DEF PositionsGetRight, WillWrite
<1>0. /\ Writer = Cascader \cup {Starter} /\ revision \in Nat /\ mgr \in [Node -> Manager]
      /\ mgr[n].rev \in Nat /\ mgr[n].rev <= revision
      /\ mgr[n].level = level[n] \/ \E w \in Cascader : WillWrite(w, n, mgr[n].rev)
      /\ \A w \in Writer : writer[w].label \in Nat
  BY DEF Writer, TypeOK, Manager, NothingIsAhead, PositionsGetRight
<1>1. ASSUME NEW w \in Cascader, Take(w)
      PROVE  mgr'[n].level = level'[n]
  BY <1>0, <1>1 DEF Take, Manager
<1>2. ASSUME NEW v \in Writer, Rebuild(v)
      PROVE  \/ mgr'[n].level = level'[n]
             \/ \E r \in Nat : r = mgr'[n].rev /\ \E w \in Cascader : WillWrite(w, n, r)'
  <2>1. UNCHANGED <<mgr, level>>
    BY <1>2, RebuildMoves
  <2>2. mgr[n].rev <= revision + 1
    BY <1>0
  <2>. QED
    BY <1>0, <1>2, <2>1, <2>2, RebuildStillWillWrite
<1>3. ASSUME NEW w \in Cascader, SyncNode(w)
      PROVE  \/ mgr'[n].level = level'[n]
             \/ \E r \in Nat : r = mgr'[n].rev /\ \E v \in Cascader : WillWrite(v, n, r)'
  <2>1. level' = level /\ \A v \in Cascader \ {w} : writer[v].pc = "idle"
    BY <1>3, SyncMoves DEF OneCascade
  <2>2. ASSUME WillWrite(w, n, mgr[n].rev), n # First(writer[w].todo)
        PROVE  mgr'[n] = mgr[n] /\ \A r \in Nat : r = mgr[n].rev => WillWrite(w, n, r)'
    BY <1>3, <2>2, SyncMoves, SyncedManager DEF WillWrite
  <2>3. ASSUME WillWrite(w, n, mgr[n].rev), n = First(writer[w].todo)
        PROVE  mgr'[n].level = level[n]
    <3>1. mgr[n].rev <= writer[w].label
      BY <1>3, <2>3, SyncMoves DEF WillWrite
    <3>. QED
      BY <1>0, <1>3, <2>3, <3>1, SyncedManager DEF Writer
  <2>4. ASSUME mgr[n].level = level[n]
        PROVE  mgr'[n].level = level[n]
    BY <1>3, <2>4, SyncedManager
  <2>. QED
    BY <1>0, <2>1, <2>2, <2>3, <2>4 DEF WillWrite
<1>4. ASSUME NEW w \in Cascader, Release(w)
      PROVE  mgr'[n].level = level'[n]
  <2>1. \A v \in Cascader : ~WillWrite(v, n, mgr[n].rev)
    BY <1>4, ReleaseMoves DEF OneCascade, WillWrite
  <2>. QED
    BY <1>0, <1>4, <2>1, ReleaseMoves
<1>5. ASSUME StarterReads
      PROVE  \/ mgr'[n].level = level'[n]
             \/ \E r \in Nat : r = mgr'[n].rev /\ \E w \in Cascader : WillWrite(w, n, r)'
  BY <1>0, <1>5, StarterReadsMoves, StillWillWrite, WriterAssumption DEF OthersRest
<1>6. ASSUME StarterSets
      PROVE  \/ mgr'[n].level = level'[n]
             \/ \E r \in Nat : r = mgr'[n].rev /\ \E w \in Cascader : WillWrite(w, n, r)'
  <2>. DEFINE s == writer[Starter]
  <2>1. level' = level /\ revision' = revision /\ \A w \in Cascader : writer'[w] = writer[w]
    BY <1>6, StarterSetsMoves, WriterAssumption DEF OthersRest, Writer
  <2>2. CASE n # s.node \/ s.label < mgr[n].rev
    <3>1. mgr'[n].level = mgr[n].level /\ mgr'[n].rev = mgr[n].rev
      BY <1>6, <2>2, StarterSetsOne
    <3>. QED
      BY <1>0, <2>1, <3>1, StillWillWrite
  <2>3. CASE n = s.node /\ ~(s.label < mgr[n].rev)
    <3>1. mgr'[n].level = s.position /\ mgr'[n].rev = s.label
      BY <1>6, <2>3, StarterSetsOne
    <3>2. s.position = level[n] \/ \E w \in Cascader : WillWrite(w, n, s.label + 1)
      BY <1>6, <2>3, StarterSetsMoves DEF StartIsOverruled
    <3>3. ASSUME NEW w \in Cascader, WillWrite(w, n, s.label + 1)
          PROVE  \A r \in Nat : r = s.label => WillWrite(w, n, r)'
      BY <1>0, <2>1, <3>3 DEF WillWrite, TypeOK, Writer
    <3>. QED
      BY <1>0, <2>1, <3>1, <3>2, <3>3
  <2>. QED BY <2>2, <2>3
<1>7. ASSUME UNCHANGED <<writer, mgr, level, revision>>
      PROVE  \/ mgr'[n].level = level'[n]
             \/ \E r \in Nat : r = mgr'[n].rev /\ \E w \in Cascader : WillWrite(w, n, r)'
  BY <1>0, <1>7, StillWillWrite
<1>. QED
  BY <1>1, <1>2, <1>3, <1>4, <1>5, <1>6, <1>7 DEF Next, Drift, vars

(* A position and label in Start's hands, for the node n.                  *)
Overruled(n, position, label) ==
  \/ position = level[n] \/ label < mgr[n].rev
  \/ \E w \in Cascader : WillWrite(w, n, label + 1)

LEMMA OverruledKeeps ==
  ASSUME TypeOK, OneCascade, NEW n \in Node, NEW position \in Level, NEW label \in Nat,
         label <= revision, Overruled(n, position, label), [Next]_vars, ~StarterSets
  PROVE  Overruled(n, position, label)'
<1>0. /\ Writer = Cascader \cup {Starter} /\ revision \in Nat /\ mgr \in [Node -> Manager]
      /\ mgr[n].rev \in Nat /\ label + 1 \in Nat /\ Starter \notin Cascader
      /\ \A w \in Writer : writer[w].label \in Nat
  BY WriterAssumption DEF Writer, TypeOK, Manager
<1>1. ASSUME NEW w \in Cascader, Take(w)
      PROVE  Overruled(n, position, label)'
  <2>1. writer'[w].pc = "read"
    BY <1>1, TakeMoves
  <2>. QED
    BY <2>1 DEF Overruled, WillWrite
<1>2. ASSUME NEW v \in Writer, Rebuild(v)
      PROVE  Overruled(n, position, label)'
  <2>1. UNCHANGED <<mgr, level>>
    BY <1>2, RebuildMoves
  <2>2. label + 1 <= revision + 1
    BY <1>0
  <2>3. ASSUME NEW w \in Cascader, WillWrite(w, n, label + 1)
        PROVE  WillWrite(w, n, label + 1)'
    BY <1>0, <1>2, <2>2, <2>3, RebuildStillWillWrite
  <2>. QED
    BY <2>1, <2>3 DEF Overruled
<1>3. ASSUME NEW w \in Cascader, SyncNode(w)
      PROVE  Overruled(n, position, label)'
  <2>1. level' = level /\ \A v \in Cascader \ {w} : writer[v].pc = "idle"
    BY <1>3, SyncMoves DEF OneCascade
  <2>2. ASSUME WillWrite(w, n, label + 1), n # First(writer[w].todo)
        PROVE  WillWrite(w, n, label + 1)'
    BY <1>3, <2>2, SyncMoves DEF WillWrite
  <2>3. ASSUME WillWrite(w, n, label + 1), n = First(writer[w].todo)
        PROVE  label < mgr'[n].rev
    <3>1. label + 1 <= writer[w].label
      BY <1>3, <2>3, SyncMoves DEF WillWrite
    <3>. QED
      BY <1>0, <1>3, <2>3, <3>1, SyncedManager DEF Writer
  <2>4. ASSUME label < mgr[n].rev
        PROVE  label < mgr'[n].rev
    BY <1>0, <1>3, <2>4, SyncedManager
  <2>5. ASSUME NEW v \in Cascader, WillWrite(v, n, label + 1)
        PROVE  v = w
    BY <2>1, <2>5 DEF WillWrite
  <2>. QED
    BY <2>1, <2>2, <2>3, <2>4, <2>5 DEF Overruled
<1>4. ASSUME NEW w \in Cascader, Release(w)
      PROVE  Overruled(n, position, label)'
  <2>1. \A v \in Cascader : ~WillWrite(v, n, label + 1)
    BY <1>4, ReleaseMoves DEF OneCascade, WillWrite
  <2>. QED
    BY <1>4, <2>1, ReleaseMoves DEF Overruled
<1>5. ASSUME UNCHANGED <<mgr, level, revision>>, \A w \in Cascader : writer'[w] = writer[w]
      PROVE  Overruled(n, position, label)'
  <2>1. ASSUME NEW w \in Cascader, WillWrite(w, n, label + 1)
        PROVE  WillWrite(w, n, label + 1)'
    BY <1>0, <1>5, <2>1, StillWillWrite
  <2>. QED
    BY <1>5, <2>1 DEF Overruled
<1>6. ASSUME StarterReads
      PROVE  Overruled(n, position, label)'
  BY <1>0, <1>5, <1>6, StarterReadsMoves DEF OthersRest
<1>. QED
  BY <1>1, <1>2, <1>3, <1>4, <1>5, <1>6 DEF Next, Drift, vars

LEMMA StartKeeps ==
  ASSUME TypeOK, OneCascade, NothingIsAhead, StartIsOverruled, [Next]_vars
  PROVE  StartIsOverruled'
<1>. DEFINE s == writer[Starter]
<1>0. /\ s \in Record /\ Starter \in Writer /\ Starter \notin Cascader
  BY WriterAssumption DEF Writer, TypeOK, Record
<1>1. CASE s'.pc # "set"
  BY <1>1 DEF StartIsOverruled
<1>2. CASE StarterReads
  <2>. DEFINE n == First(s.todo)
  <2>1. s'.node = n /\ s'.position = level[n] /\ level' = level
    <3>1. /\ s' = [s EXCEPT !.pc = "set", !.todo = @ \ {n}, !.node = n, !.position = level[n]]
          /\ level' = level
      BY <1>2, StarterReadsMoves
    <3>. HIDE DEF n
    <3>. QED
      BY <1>0, <3>1 DEF Record
  <2>. HIDE DEF n
  <2>. QED
    BY <2>1 DEF StartIsOverruled
<1>3. CASE StarterSets
  <2>1. s'.pc # "set"
    BY <1>0, <1>3, StarterSetsMoves DEF Record
  <2>. QED BY <1>1, <2>1
<1>4. CASE s' = s /\ s.pc = "set"
  <2>1. s.node \in Node /\ s.position \in Level /\ s.label \in Nat /\ s.label <= revision
    BY <1>0, <1>4 DEF Record, NothingIsAhead, Labelled
  <2>2. Overruled(s.node, s.position, s.label)
    BY <1>4 DEF StartIsOverruled, Overruled
  <2>3. CASE ~StarterSets
    <3>1. ASSUME NEW n \in Node, NEW position \in Level, NEW label \in Nat,
                 n = s.node, position = s.position, label = s.label
          PROVE  Overruled(n, position, label)'
      BY <2>1, <2>2, <2>3, <3>1, OverruledKeeps
    <3>2. PICK n \in Node, position \in Level, label \in Nat :
            n = s.node /\ position = s.position /\ label = s.label
      BY <2>1
    <3>3. Overruled(n, position, label)'
      BY <3>1, <3>2
    <3>. QED
      BY <1>4, <3>2, <3>3 DEF StartIsOverruled, Overruled, WillWrite
  <2>. QED BY <1>3, <2>3
<1>5. StarterReads \/ StarterSets \/ s'.pc # "set" \/ (s' = s /\ s.pc = "set")
  <2>1. ASSUME NEW w \in Writer, Rebuild(w)
        PROVE  s'.pc # "set" \/ s' = s
    BY <1>0, <2>1, RebuildMoves DEF OthersRest
  <2>2. ASSUME NEW w \in Cascader, Take(w) \/ SyncNode(w) \/ Release(w)
        PROVE  s' = s
    BY <1>0, <2>2, TakeMoves, SyncMoves, ReleaseMoves DEF OthersRest
  <2>. QED
    BY <2>1, <2>2 DEF Next, Drift, vars
<1>. QED
  BY <1>1, <1>2, <1>3, <1>4, <1>5

(* No revision is 0 after the first rebuild.                               *)
LEMMA RevisionsKeep ==
  ASSUME TypeOK, OneCascade, NothingIsAhead, RevisionsBegin, [Next]_vars
  PROVE  RevisionsBegin'
<1>. DEFINE s == writer[Starter]
<1>0. /\ s \in Record /\ Starter \in Writer /\ Starter \notin Cascader /\ revision \in Nat
      /\ mgr \in [Node -> Manager]
      /\ s.pc \in {"own", "sync", "set", "idle"} => revision > 0
      /\ Labelled(Starter) => s.label > 0
      /\ \A n \in Node : mgr[n].rev \in Nat /\ (StartGave(n) => mgr[n].rev > 0)
  BY WriterAssumption DEF Writer, TypeOK, Record, Manager, RevisionsBegin
<1>1. ASSUME s' = s, revision' \in {revision, revision + 1},
             \A n \in Node : mgr'[n].rev >= mgr[n].rev
      PROVE  RevisionsBegin'
  <2>1. \A n \in Node : StartGave(n)' => StartGave(n)
    BY <1>1 DEF StartGave
  <2>2. \A n \in Node : mgr'[n].rev \in Nat
    BY ManagersKeep DEF Manager
  <2>3. \A n \in Node : StartGave(n)' => mgr'[n].rev > 0
    BY <1>0, <1>1, <2>1, <2>2
  <2>. QED
    BY <1>0, <1>1, <2>3 DEF RevisionsBegin, Labelled
<1>2. ASSUME NEW w \in Cascader, Take(w)
      PROVE  RevisionsBegin'
  BY <1>0, <1>1, <1>2, TakeMoves DEF Take, OthersRest, Manager
<1>3. ASSUME NEW w \in Cascader, Rebuild(w)
      PROVE  RevisionsBegin'
  BY <1>0, <1>1, <1>3, RebuildMoves DEF OthersRest, Writer
<1>4. ASSUME Rebuild(Starter)
      PROVE  RevisionsBegin'
  BY <1>0, <1>4, RebuildMoves DEF RevisionsBegin, Labelled, StartGave
<1>5. ASSUME NEW w \in Cascader, SyncNode(w)
      PROVE  RevisionsBegin'
  <2>1. \A n \in Node : mgr'[n].rev >= mgr[n].rev
    <3>1. writer[w].label \in Nat
      BY DEF TypeOK, Writer
    <3>. QED
      BY <1>0, <1>5, <3>1, SyncedManager
  <2>. QED
    BY <1>0, <1>1, <1>5, <2>1, SyncMoves DEF OthersRest
<1>6. ASSUME NEW w \in Cascader, Release(w)
      PROVE  RevisionsBegin'
  BY <1>0, <1>1, <1>6, ReleaseMoves DEF OthersRest
<1>7. ASSUME StarterReads
      PROVE  RevisionsBegin'
  <2>. DEFINE n == First(s.todo)
  <2>1. /\ s.pc = "sync" /\ n \in s.todo /\ n \in Node
        /\ s' = [s EXCEPT !.pc = "set", !.todo = @ \ {n}, !.node = n, !.position = level[n]]
        /\ UNCHANGED <<revision, mgr>>
    BY <1>7, StarterReadsMoves
  <2>. HIDE DEF n
  <2>2. s'.pc = "set" /\ s'.todo = s.todo \ {n} /\ s'.node = n /\ s'.label = s.label
    BY <1>0, <2>1 DEF Record
  <2>3. \A m \in Node : StartGave(m)' => StartGave(m)
    BY <2>1, <2>2 DEF StartGave
  <2>. QED
    BY <1>0, <2>1, <2>2, <2>3 DEF RevisionsBegin, Labelled
<1>8. ASSUME StarterSets
      PROVE  RevisionsBegin'
  <2>1. /\ s.pc = "set" /\ s'.pc = (IF s.todo = {} THEN "idle" ELSE "sync")
        /\ s'.todo = s.todo /\ s'.label = s.label /\ revision' = revision
    BY <1>0, <1>8, StarterSetsMoves DEF Record
  <2>2. /\ \A m \in Node \ {s.node} : mgr'[m] = mgr[m]
        /\ s.node \in Node
        /\ mgr'[s.node].rev = IF s.label < mgr[s.node].rev THEN mgr[s.node].rev ELSE s.label
    BY <1>8, StarterSetsOne
  <2>3. s.label \in Nat /\ s.label > 0 /\ revision > 0
    BY <1>0, <2>1 DEF Labelled, Record
  <2>4. \A m \in Node \ {s.node} : StartGave(m)' => StartGave(m)
    BY <2>1 DEF StartGave
  <2>5. mgr'[s.node].rev > 0
    BY <1>0, <2>2, <2>3
  <2>. QED
    BY <1>0, <2>1, <2>2, <2>3, <2>4, <2>5 DEF RevisionsBegin, Labelled
<1>9. ASSUME UNCHANGED <<writer, revision, mgr>>
      PROVE  RevisionsBegin'
  BY <1>0, <1>1, <1>9
<1>. QED
  BY <1>0, <1>2, <1>3, <1>4, <1>5, <1>6, <1>7, <1>8, <1>9 DEF Next, Drift, vars, Writer

-----------------------------------------------------------------------------
(* Caches.                                                                 *)
LEMMA FreshKeeps ==
  ASSUME TypeOK, OneCascade, [Next]_vars, NEW t, NEW index \in Nat, index <= installs,
         FreshOrStarts(t, index), \A w \in Cascader : ~Install(w)
  PROVE  FreshOrStarts(t, index)'
<1>0. installs \in Nat /\ Writer = Cascader \cup {Starter} /\ writer[Starter] \in Record
  BY DEF Writer, TypeOK, Record
<1>1. CASE Rebuild(Starter)
  BY <1>0, <1>1, RebuildMoves DEF FreshOrStarts, StartInstalled
<1>2. ASSUME UNCHANGED <<levels, installs>>, writer'[Starter].read = writer[Starter].read,
             StartInstalled' <=> StartInstalled
      PROVE  FreshOrStarts(t, index)'
  BY <1>2 DEF FreshOrStarts
<1>3. ASSUME NEW w \in Cascader, Take(w) \/ SyncNode(w) \/ Release(w) \/ Rebuild(w)
      PROVE  FreshOrStarts(t, index)'
  <2>1. writer'[Starter] = writer[Starter]
    BY <1>0, <1>3, TakeMoves, SyncMoves, ReleaseMoves, RebuildMoves, WriterAssumption DEF OthersRest
  <2>2. UNCHANGED <<levels, installs>>
    BY <1>3 DEF Take, SyncNode, Release, Rebuild, Read, Bump, Own
  <2>. QED
    BY <1>2, <2>1, <2>2 DEF StartInstalled
<1>4. ASSUME StarterReads \/ StarterSets
      PROVE  FreshOrStarts(t, index)'
  <2>1. /\ UNCHANGED <<levels, installs>> /\ writer'[Starter].read = writer[Starter].read
        /\ writer[Starter].pc \in {"sync", "set"} /\ writer'[Starter].pc \in {"set", "idle", "sync"}
    BY <1>0, <1>4, StarterReadsMoves, StarterSetsMoves DEF Record
  <2>. QED
    BY <1>2, <2>1 DEF StartInstalled
<1>5. ASSUME UNCHANGED <<writer, levels, installs>>
      PROVE  FreshOrStarts(t, index)'
  BY <1>2, <1>5 DEF StartInstalled
<1>. QED
  BY <1>0, <1>1, <1>3, <1>4, <1>5 DEF Next, Drift, vars

(* The managers' caches, when no cascade is under way.                     *)
CacheFresh(n) ==
  StartInstalled =>
    \/ mgr[n].cache = CacheOf(levels, installs, n, level[n])
    \/ mgr[n].cache.index < installs /\ levels = writer[Starter].read

LEMMA CachesKeep ==
  ASSUME TypeOK, OneCascade, NothingIsAhead, CachesGetRight, [Next]_vars
  PROVE  CachesGetRight'
<1>. DEFINE Snap(w) ==
              writer[w].pc = "sync" =>
                /\ FreshOrStarts(writer[w].snapshot, writer[w].index)
                /\ \A n \in Node \ writer[w].todo :
                     mgr[n].cache = CacheOf(writer[w].snapshot, writer[w].index, n, level[n])
            Free == placement = NoWriter => \A n \in Node : CacheFresh(n)
<1>0. /\ Writer = Cascader \cup {Starter} /\ Starter \notin Cascader /\ NoWriter \notin Cascader
      /\ installs \in Nat /\ writer \in [Writer -> Record]
      /\ \A w \in Writer : writer[w].index \in Nat
      /\ \A w \in Writer : writer[w].pc = "sync" => writer[w].index <= installs
      /\ \A n \in Node : mgr[n].cache.index \in Nat /\ mgr[n].cache.index <= installs
      /\ mgr \in [Node -> Manager]
      /\ \A w \in Cascader : Snap(w)
      /\ Free
  BY WriterAssumption DEF Writer, TypeOK, Record, Manager, Cache, NothingIsAhead, Labelled,
     CachesGetRight, CacheFresh
<1>1. ASSUME \A w \in Cascader : Snap(w)', Free'
      PROVE  CachesGetRight'
  BY <1>1 DEF CachesGetRight, CacheFresh
<1>2. ASSUME NEW w \in Cascader, writer'[w] = writer[w], UNCHANGED level,
             \A n \in Node : mgr'[n].cache = mgr[n].cache, \A v \in Cascader : ~Install(v)
      PROVE  Snap(w)'
  <2>1. CASE writer[w].pc = "sync"
    <3>1. ASSUME NEW t, NEW i \in Nat, t = writer[w].snapshot, i = writer[w].index
          PROVE  FreshOrStarts(t, i)'
      BY <1>0, <1>2, <2>1, <3>1, FreshKeeps
    <3>2. PICK t : t = writer[w].snapshot
      OBVIOUS
    <3>3. PICK i \in Nat : i = writer[w].index
      BY <1>0
    <3>4. FreshOrStarts(t, i)'
      BY <3>1, <3>2, <3>3
    <3>. QED
      BY <1>0, <1>2, <2>1, <3>2, <3>3, <3>4 DEF FreshOrStarts
  <2>2. CASE writer[w].pc # "sync"
    BY <1>2, <2>2
  <2>. QED BY <2>1, <2>2
<1>3. ASSUME NEW w \in Cascader, Take(w)
      PROVE  CachesGetRight'
  <2>1. \A v \in Cascader : writer'[v].pc # "sync"
    <3>1. \A v \in Cascader : writer[v].pc = "idle"
      BY <1>0, <1>3 DEF Take, OneCascade
    <3>. QED
      BY <1>0, <1>3, <3>1, TakeMoves DEF OthersRest
  <2>2. placement' # NoWriter
    BY <1>0, <1>3 DEF Take
  <2>. QED
    BY <1>1, <2>1, <2>2
<1>4. ASSUME NEW w \in Cascader, Rebuild(w)
      PROVE  CachesGetRight'
  <2>1. placement = w /\ placement' = w /\ UNCHANGED <<mgr, level>>
    BY <1>0, <1>4, RebuildMoves DEF OneCascade
  <2>2. \A v \in Cascader \ {w} : writer'[v] = writer[v] /\ writer[v].pc = "idle"
    BY <1>0, <1>4, <2>1, RebuildMoves DEF OneCascade, OthersRest
  <2>3. Snap(w)'
    <3>1. CASE writer'[w].pc = "sync"
      BY <1>0, <1>4, <3>1, RebuildMoves DEF FreshOrStarts
    <3>2. CASE writer'[w].pc # "sync"
      BY <3>2
    <3>. QED BY <3>1, <3>2
  <2>4. Free'
    BY <1>0, <2>1
  <2>. QED
    BY <1>1, <2>2, <2>3, <2>4
<1>5. ASSUME NEW w \in Cascader, SyncNode(w)
      PROVE  CachesGetRight'
  <2>. DEFINE n == First(writer[w].todo)
  <2>1. /\ placement = w /\ placement' = w /\ UNCHANGED <<level, levels, installs>>
        /\ \A v \in Cascader \ {w} : writer'[v] = writer[v] /\ writer[v].pc = "idle"
        /\ writer'[Starter] = writer[Starter]
    BY <1>0, <1>5, SyncMoves DEF OneCascade, OthersRest
  <2>2. /\ writer[w].pc = "sync" /\ writer'[w].snapshot = writer[w].snapshot
        /\ writer'[w].index = writer[w].index /\ writer'[w].todo = writer[w].todo \ {n}
    BY <1>5, SyncMoves
  <2>3. /\ \A o \in Node \ {n} : mgr'[o] = mgr[o]
        /\ mgr'[n].cache = CacheOf(writer[w].snapshot, writer[w].index, n, level[n])
    BY <1>5, SyncedManager
  <2>4. FreshOrStarts(writer[w].snapshot, writer[w].index)'
    BY <1>0, <2>1, <2>2 DEF FreshOrStarts, StartInstalled
  <2>. HIDE DEF n
  <2>5. Snap(w)'
    BY <1>0, <2>1, <2>2, <2>3, <2>4
  <2>. QED
    BY <1>0, <1>1, <2>1, <2>5
<1>6. ASSUME NEW w \in Cascader, Release(w)
      PROVE  CachesGetRight'
  <2>1. /\ writer[w].pc = "sync" /\ writer[w].todo = {} /\ writer'[w].pc = "idle"
        /\ UNCHANGED <<level, mgr, levels, installs>>
        /\ writer'[Starter] = writer[Starter]
        /\ \A v \in Cascader \ {w} : writer'[v] = writer[v] /\ writer[v].pc = "idle"
    BY <1>0, <1>6, ReleaseMoves DEF OneCascade, OthersRest
  <2>2. \A n \in Node : CacheFresh(n)
    <3>1. \A t, i, o, l : CacheOf(t, i, o, l).index = i
      BY DEF CacheOf
    <3>. QED
      BY <1>0, <2>1, <3>1 DEF CacheFresh, FreshOrStarts
  <2>3. \A n \in Node : CacheFresh(n)'
    BY <2>1, <2>2 DEF CacheFresh, StartInstalled
  <2>. QED
    BY <1>1, <2>1, <2>3
<1>7. ASSUME Rebuild(Starter)
      PROVE  CachesGetRight'
  <2>1. /\ UNCHANGED <<mgr, level, placement>> /\ \A w \in Cascader : writer'[w] = writer[w]
    BY <1>0, <1>7, RebuildMoves DEF OthersRest
  <2>2. ASSUME NEW v \in Cascader, Install(v)
        PROVE  FALSE
    <3>1. writer[v].pc = "install" /\ writer'[v].pc = "bump"
      BY <1>0, <2>2 DEF Install, Record
    <3>. QED
      BY <2>1, <3>1
  <2>3. ASSUME NEW n \in Node, CacheFresh(n)
        PROVE  CacheFresh(n)'
    BY <1>0, <1>7, <2>3, RebuildMoves DEF CacheFresh, StartInstalled
  <2>. QED
    BY <1>0, <1>1, <1>2, <2>1, <2>2, <2>3
<1>8. ASSUME StarterReads \/ StarterSets
      PROVE  CachesGetRight'
  <2>1. /\ UNCHANGED <<level, placement, levels, installs>>
        /\ \A w \in Cascader : writer'[w] = writer[w]
        /\ writer'[Starter].read = writer[Starter].read
        /\ writer[Starter].pc \in {"sync", "set"} /\ writer'[Starter].pc \in {"set", "idle", "sync"}
    BY <1>0, <1>8, StarterReadsMoves, StarterSetsMoves DEF OthersRest, Record
  <2>2. \A n \in Node : mgr'[n].cache = mgr[n].cache
    BY <1>0, <1>8, StarterReadsMoves, StarterSetsOne
  <2>3. \A v \in Cascader : ~Install(v)
    BY <1>0, <2>1 DEF Install
  <2>4. ASSUME NEW n \in Node, CacheFresh(n)
        PROVE  CacheFresh(n)'
    BY <2>1, <2>2, <2>4 DEF CacheFresh, StartInstalled
  <2>. QED
    BY <1>0, <1>1, <1>2, <2>1, <2>2, <2>3, <2>4
<1>9. ASSUME UNCHANGED <<writer, mgr, level, levels, installs, placement>>
      PROVE  CachesGetRight'
  <2>1. \A v \in Cascader : ~Install(v)
    BY <1>0, <1>9 DEF Install
  <2>2. ASSUME NEW n \in Node, CacheFresh(n)
        PROVE  CacheFresh(n)'
    BY <1>9, <2>2 DEF CacheFresh, StartInstalled
  <2>. QED
    BY <1>0, <1>1, <1>2, <1>9, <2>1, <2>2
<1>. QED
  BY <1>0, <1>3, <1>4, <1>5, <1>6, <1>7, <1>8, <1>9 DEF Next, Drift, vars

-----------------------------------------------------------------------------
LEMMA InitEstablishes ==
  ASSUME Init
  PROVE  IInv
<1>0. q \in [Node -> Quality]
  BY QualityAssumption DEF Init
<1>1. level \in [Node -> Level] /\ mgr \in [Node -> Manager]
  BY LevelZero, NoCacheType DEF Init, Manager
<1>2. /\ writer \in [Writer -> Record]
      /\ \A w \in Cascader : writer[w].pc = "idle"
      /\ writer[Starter].pc = "read"
  <2>1. Idle \in Record /\ Idle.pc = "idle"
    BY <1>0, IdleType
  <2>. HIDE DEF Idle
  <2>2. [Idle EXCEPT !.pc = "read"] \in Record /\ [Idle EXCEPT !.pc = "idle"] \in Record
    BY <2>1 DEF Record
  <2>3. \A w \in Writer : writer[w] = [Idle EXCEPT !.pc = IF w = Starter THEN "read" ELSE "idle"]
    BY DEF Init
  <2>4. writer = [w \in Writer |-> writer[w]]
    BY DEF Init
  <2>. QED
    BY <2>1, <2>2, <2>3, <2>4, WriterAssumption DEF Writer, Record
<1>3. levels \in Table
  BY <1>0, <1>1, TreeLevelsType DEF Init
<1>4. TypeOK
  BY <1>0, <1>1, <1>2, <1>3 DEF Init, TypeOK, Record, Manager
<1>5. OneCascade /\ InstallsAreCounted /\ LabelNeverAhead /\ NothingIsAhead
  BY <1>2, WriterAssumption
  DEF Init, OneCascade, InstallsAreCounted, Uncounted, LabelNeverAhead, NothingIsAhead, Labelled,
      NoCache, Writer
<1>6. PositionsGetRight /\ StartIsOverruled /\ RevisionsBegin /\ CachesGetRight
  BY <1>2
  DEF Init, PositionsGetRight, StartIsOverruled, RevisionsBegin, CachesGetRight, StartInstalled,
      StartGave, Labelled
<1>. QED
  BY <1>4, <1>5, <1>6 DEF IInv

LEMMA NextKeeps ==
  ASSUME IInv, [Next]_vars
  PROVE  IInv'
BY TypesKeep, OneCascadeKeeps, CountsKeep, LabelsKeep, NothingGetsAhead, PositionsKeep,
   StartKeeps, RevisionsKeep, CachesKeep
DEF IInv

LEMMA Invariance == Spec => []IInv
<1>1. Init => IInv
  BY InitEstablishes
<1>2. IInv /\ [Next]_vars => IInv'
  BY NextKeeps
<1>. QED
  BY <1>1, <1>2, PTL DEF Spec

(* The types; no cache holds more than N peers of a level.                 *)
THEOREM HierarchyTypes == Spec => []TypeOK
<1>1. IInv => TypeOK
  BY DEF IInv
<1>. QED
  BY <1>1, Invariance, PTL

(* A label never names more rebuilds than its levels have seen, although   *)
(* the revision is bumped and read outside the mutex (state.go:83-88).     *)
THEOREM LabelsAreSafe == Spec => []LabelNeverAhead
<1>1. IInv => LabelNeverAhead
  BY DEF IInv
<1>. QED
  BY <1>1, Invariance, PTL

(* No tick proposes a rotation from the ranking it is handed: the ranking  *)
(* has already put the best of a level first (evaluateLeaderRotation).     *)
THEOREM NoRotationProposed == Spec => []NoRotationIsEligible
<1>1. TypeOK => NoRotationIsEligible
  <2>. SUFFICES ASSUME TypeOK, NEW l \in Level, Eligible(levels, l)
                PROVE  FALSE
    BY DEF NoRotationIsEligible
  <2>1. Ranked(levels)
    BY QualityAssumption DEF TypeOK, Table, Ranked
  <2>2. PICK best \in Members(levels, l) \ {Leader(levels, l)} :
          levels[best].q >= levels[Leader(levels, l)].q + MinDelta
    BY DEF Eligible
  <2>3. Leader(levels, l) \in Members(levels, l) /\ Leads(levels, Leader(levels, l))
    BY <2>1, <2>2, LeaderIsTheBest
  <2>4. Better(levels, Leader(levels, l), best)
    BY <2>2, <2>3 DEF Leads, Members
  <2>5. levels[Leader(levels, l)].q \in Int /\ levels[best].q \in Int
    BY <2>1, <2>2, <2>3 DEF Ranked, Members
  <2>. QED
    BY <2>2, <2>4, <2>5, DeltaAssumption DEF Better
<1>2. IInv => NoRotationIsEligible
  BY <1>1 DEF IInv
<1>. QED
  BY <1>2, Invariance, PTL

(* Whatever Start writes in between, a manager ends up on the level its    *)
(* node has (node/manager.go:154, the comparison of the revisions).        *)
THEOREM PositionsAreTheTrees == Spec => []PositionsFollowTheTree
<1>1. IInv => PositionsFollowTheTree
  BY DEF IInv, PositionsGetRight, PositionsFollowTheTree, Quiet, WillWrite, Writer
<1>. QED
  BY <1>1, Invariance, PTL

(* The caches are those of the installed ranking, unless it is Start's.    *)
THEOREM CachesAreInstalled == Spec => []OnlyStartLeavesCachesStale
<1>1. IInv => OnlyStartLeavesCachesStale
  <2>. SUFFICES ASSUME IInv, Quiet, NEW n \in Node
                PROVE  \/ mgr[n].cache = CacheOf(levels, installs, n, level[n])
                       \/ /\ mgr[n].cache.index < installs
                          /\ mgr[n].rev > 0 /\ levels = writer[Starter].read
    BY DEF OnlyStartLeavesCachesStale
  <2>1. placement = NoWriter
    BY DEF IInv, TypeOK, OneCascade, Quiet, Writer
  <2>2. StartInstalled /\ StartGave(n)
    BY DEF Quiet, Writer, StartInstalled, StartGave
  <2>3. mgr[n].rev > 0
    BY <2>2 DEF IInv, RevisionsBegin
  <2>. QED
    BY <2>1, <2>2, <2>3 DEF IInv, CachesGetRight
<1>. QED
  BY <1>1, Invariance, PTL

(* No sync takes a node's caches, or its revision, back to an earlier      *)
(* ranking (SPEC_LEADER_ROTATION_POLICY.md:127).                           *)
THEOREM SyncsAreOrdered == Spec => CachesNeverGoBack
<1>1. ASSUME IInv, [Next]_vars
      PROVE  \A n \in Node :
               mgr'[n].cache.index >= mgr[n].cache.index /\ mgr'[n].rev >= mgr[n].rev
  <2>0. /\ mgr \in [Node -> Manager] /\ writer \in [Writer -> Record]
        /\ Writer = Cascader \cup {Starter}
        /\ \A n \in Node : mgr[n].rev \in Nat /\ mgr[n].cache.index \in Nat
        /\ \A w \in Writer : writer[w].label \in Nat /\ writer[w].index \in Nat
    BY <1>1 DEF IInv, TypeOK, Manager, Cache, Record, Writer
  <2>1. ASSUME NEW w \in Cascader, Take(w)
        PROVE  \A n \in Node : mgr'[n].cache = mgr[n].cache /\ mgr'[n].rev = mgr[n].rev
    BY <2>0, <2>1 DEF Take, Manager
  <2>2. ASSUME NEW w \in Cascader, SyncNode(w)
        PROVE  \A n \in Node :
                 mgr'[n].cache.index >= mgr[n].cache.index /\ mgr'[n].rev >= mgr[n].rev
    <3>. DEFINE n == First(writer[w].todo)
    <3>1. \A t, i, o, l : CacheOf(t, i, o, l).index = i
      BY DEF CacheOf
    <3>2. /\ n \in Node /\ \A o \in Node \ {n} : mgr'[o] = mgr[o]
          /\ mgr'[n].cache.index = writer[w].index
          /\ mgr'[n].rev = IF writer[w].label < mgr[n].rev THEN mgr[n].rev ELSE writer[w].label
      BY <1>1, <2>2, <3>1, SyncedManager DEF IInv
    <3>3. mgr[n].cache.index <= writer[w].index
      BY <1>1, <2>2, <3>2 DEF IInv, NothingIsAhead, SyncNode
    <3>. HIDE DEF n
    <3>. QED
      BY <2>0, <3>2, <3>3
  <2>3. ASSUME StarterSets
        PROVE  \A n \in Node : mgr'[n].cache = mgr[n].cache /\ mgr'[n].rev >= mgr[n].rev
    BY <1>1, <2>0, <2>3, StarterSetsOne DEF IInv, Writer
  <2>4. ASSUME UNCHANGED mgr
        PROVE  \A n \in Node : mgr'[n].cache = mgr[n].cache /\ mgr'[n].rev = mgr[n].rev
    BY <2>4
  <2>5. \/ \E w \in Cascader : Take(w) \/ SyncNode(w)
        \/ StarterSets \/ UNCHANGED mgr
    BY <1>1 DEF Next, Rebuild, Read, Install, Bump, Own, Release, StarterReads, Drift, vars
  <2>. QED
    BY <2>0, <2>1, <2>2, <2>3, <2>4, <2>5
<1>2. IInv /\ [Next]_vars =>
        [\A n \in Node :
           mgr'[n].cache.index >= mgr[n].cache.index /\ mgr'[n].rev >= mgr[n].rev]_vars
  BY <1>1
<1>. QED
  BY <1>2, Invariance, PTL DEF Spec, CachesNeverGoBack
=============================================================================
