------------------------------ MODULE Hierarchy ------------------------------
(***************************************************************************)
(* The ranking per level (hierarchy/state.go) and the caches the nodes'    *)
(* managers keep of it (node/manager.go).                                  *)
(*                                                                         *)
(* Two writers rebuild the ranking.  A cascade, under placementMu, assigns *)
(* the levels, reads the peers, rebuilds, and syncs each manager from the  *)
(* snapshot its rebuild returned.  Start's rebuildHierarchy does it under  *)
(* no lock of the dashboard, while cascades run, and writes the managers'  *)
(* position only.  RebuildFromPeers installs its levels under the state's  *)
(* mutex, bumps the revision after the unlock, and then takes a snapshot   *)
(* of whatever is installed by then.  Between all of these the nodes'      *)
(* qualities drift.                                                        *)
(*                                                                         *)
(* A ranking is kept as the table of peers it was sorted from.  The set of *)
(* nodes is fixed (module Mutation kills and spawns), and a cascade reads  *)
(* the qualities, and assigns the levels, in one step each.  Left out: the *)
(* order of a cached list, total_levels, the failover list (for display),  *)
(* and the leaders the sync hands out, which are in module Attachment.     *)
(***************************************************************************)
EXTENDS PlacementTree, FiniteSets

CONSTANTS
  Node,        \* node ids; the smaller one wins a tie
  Cascader,    \* goroutines that run a cascade
  NoWriter,    \* placementMu is free
  Starter,     \* the goroutine in Start
  Quality,     \* the values a quality takes
  InitialQ,    \* the qualities the nodes are spawned with
  MinDelta,    \* cfg.RotationMinDelta
  MaxRevision, \* bound on the cascades, for TLC
  MaxDrifts    \* bound on the drifts, for TLC

ASSUME NodeAssumption == Node \subseteq Nat /\ IsFiniteSet(Node) /\ Node # {}
ASSUME WriterAssumption == NoWriter \notin Cascader /\ Starter \notin Cascader
ASSUME QualityAssumption == Quality \subseteq Int /\ InitialQ \subseteq [Node -> Quality]
\* validateStartConfig lets 0 pass; the default is 0.05.
ASSUME DeltaAssumption == MinDelta \in Nat \ {0}
ASSUME BoundAssumption == MaxRevision \in Nat /\ MaxDrifts \in Nat

VARIABLES
  q,          \* node.Metrics.Q
  level,      \* node.Level
  mgr,        \* per node its NodeManager: topologyRev, currentLevel, the caches
  levels,     \* State.levels: the peers they were built from
  revision,   \* State.revision
  placement,  \* who holds placementMu
  writer,     \* per goroutine its place in the code and what it has read
  installs,   \* history: how often State.levels was replaced
  drifts      \* drifts so far

vars == <<q, level, mgr, levels, revision, placement, writer, installs, drifts>>

Writer == Cascader \cup {Starter}
-----------------------------------------------------------------------------
(* betterPeer.                                                             *)
Better(t, a, b) == t[a].q > t[b].q \/ (t[a].q = t[b].q /\ a < b)

Members(t, l) == {p \in Node : t[p].level = l}
Place(t, p)   == Cardinality({o \in Members(t, t[p].level) : Better(t, o, p)})

(* Mutated form of Leader: the state's sort has the worst peer first.      *)
LeaderWorst(t, l) ==
  CHOOSE p \in Members(t, l) : \A o \in Members(t, l) \ {p} : Better(t, o, p)

(* Mutated form of Candidates: one too many.                               *)
CandidatesOneMore(t, l) == {p \in Members(t, l) : Place(t, p) \in 1 .. N + 1}

(* RebuildFromPeers: the first of a level leads it, the next N are its     *)
(* candidates, and whoever is left is overflow.                            *)
Leads(t, p)      == \A o \in Members(t, t[p].level) \ {p} : Better(t, p, o)
Leader(t, l)     == CHOOSE p \in Members(t, l) : Leads(t, p)
Candidates(t, l) == {p \in Members(t, l) : Place(t, p) \in 1 .. N}

(* The Y nearest levels towards the root that anybody is on.               *)
UpperLevels(t, l) ==
  LET used == {u \in 0 .. l - 1 : Members(t, u) # {}}
  IN  {u \in used : Cardinality({v \in used : v > u}) < Y}

NoCache == [same |-> {}, upper |-> {}, index |-> 0]

(* SetSameLevel and SetUpperLevels, which has no entry for level 0.  index *)
(* is history: the rebuild the peers are from.                             *)
CacheOf(t, index, n, l) ==
  [same  |-> Candidates(t, l) \ {n},
   upper |-> {[level |-> u, leader |-> Leader(t, u), candidates |-> Candidates(t, u) \ {n}] :
                u \in UpperLevels(t, l) \ {0}},
   index |-> index]

(* SetHierarchyPosition.                                                   *)
SetPosition(m, l, rev) ==
  IF rev < m.rev THEN m ELSE [m EXCEPT !.level = l, !.rev = rev]
-----------------------------------------------------------------------------
(* The peers as they are now.                                              *)
Peers == [n \in Node |-> [q |-> q[n], level |-> level[n]]]

(* The levels of the tree a cascade builds: rank by quality, then place.   *)
TreeLevels ==
  [n \in Node |-> LevelAtRank(1 + Cardinality({o \in Node : Better(Peers, o, n)}))]

(* The next node of a loop over all nodes.  Go's order is any; a turn      *)
(* touches the node's own manager only, so one order stands for all.       *)
First(S) == CHOOSE n \in S : \A o \in S : n <= o

NoPeers == [n \in Node |-> [q |-> CHOOSE v \in Quality : TRUE, level |-> 0]]

Idle == [pc |-> "idle", read |-> NoPeers, snapshot |-> NoPeers, label |-> 0, index |-> 0,
         todo |-> {}, node |-> CHOOSE n \in Node : TRUE, position |-> 0]

(* The nodes are spawned, none has joined, and Start goes on to rebuild.   *)
Init ==
  /\ q \in InitialQ
  /\ level = [n \in Node |-> 0]
  /\ mgr = [n \in Node |-> [rev |-> 0, level |-> 0, cache |-> NoCache]]
  /\ levels = Peers /\ revision = 0 /\ installs = 0
  /\ placement = NoWriter
  /\ writer = [w \in Writer |-> [Idle EXCEPT !.pc = IF w = Starter THEN "read" ELSE "idle"]]
  /\ drifts = 0
-----------------------------------------------------------------------------
(* Mutated forms of the definitions below, as a slip in the code could     *)
(* have them.  They show that each property can fail.                      *)

(* The cascade's mutex is left out.                                        *)
TakeUnlocked(w) ==
  /\ writer[w].pc = "idle" /\ revision < MaxRevision
  /\ placement' = w
  /\ level' = TreeLevels
  /\ mgr' = [n \in Node |-> [mgr[n] EXCEPT !.level = level'[n]]]
  /\ writer' = [writer EXCEPT ![w].pc = "read"]
  /\ UNCHANGED <<q, levels, revision, installs, drifts>>

(* SetHierarchyPosition does not compare the revisions.                    *)
StarterSetsAnyway ==
  LET w == writer[Starter]
      n == w.node
  IN
  /\ w.pc = "set"
  /\ mgr' = [mgr EXCEPT ![n].level = w.position, ![n].rev = w.label]
  /\ writer' = [writer EXCEPT ![Starter].pc = IF w.todo = {} THEN "idle" ELSE "sync"]
  /\ UNCHANGED <<q, level, levels, revision, placement, installs, drifts>>

(* The revision is bumped before the levels are installed.                 *)
InstallBumps(w) ==
  /\ writer[w].pc = "install"
  /\ revision' = revision + 1
  /\ writer' = [writer EXCEPT ![w].pc = "bump"]
  /\ UNCHANGED <<q, level, mgr, levels, placement, installs, drifts>>

BumpInstalls(w) ==
  /\ writer[w].pc = "bump"
  /\ levels' = writer[w].read /\ installs' = installs + 1
  /\ writer' = [writer EXCEPT ![w].pc = "own"]
  /\ UNCHANGED <<q, level, mgr, revision, placement, drifts>>

(* The sync leaves a cache alone that is not empty.                        *)
SyncKeepsCaches(w) ==
  LET n == First(writer[w].todo) IN
    /\ w # Starter /\ writer[w].pc = "sync" /\ writer[w].todo # {}
    /\ mgr' = [mgr EXCEPT ![n] = [SetPosition(@, level[n], writer[w].label) EXCEPT !.cache =
                 IF @.same # {} THEN @
                 ELSE CacheOf(writer[w].snapshot, writer[w].index, n, level[n])]]
    /\ writer' = [writer EXCEPT ![w].todo = @ \ {n}]
    /\ UNCHANGED <<q, level, levels, revision, placement, installs, drifts>>
-----------------------------------------------------------------------------
(* applyPlacementCascade: the mutex, the ranking and the levels, which     *)
(* SetLevel writes to the managers as well.                                *)
Take(w) ==
  /\ placement = NoWriter /\ writer[w].pc = "idle" /\ revision < MaxRevision
  /\ placement' = w
  /\ level' = TreeLevels
  /\ mgr' = [n \in Node |-> [mgr[n] EXCEPT !.level = level'[n]]]
  /\ writer' = [writer EXCEPT ![w].pc = "read"]
  /\ UNCHANGED <<q, levels, revision, installs, drifts>>

(* PeerInfo of every node.                                                 *)
Read(w) ==
  /\ writer[w].pc = "read"
  /\ writer' = [writer EXCEPT ![w].pc = "install", ![w].read = Peers]
  /\ UNCHANGED <<q, level, mgr, levels, revision, placement, installs, drifts>>

(* RebuildFromPeers, in three.                                             *)
Install(w) ==
  /\ writer[w].pc = "install"
  /\ levels' = writer[w].read /\ installs' = installs + 1
  /\ writer' = [writer EXCEPT ![w].pc = "bump"]
  /\ UNCHANGED <<q, level, mgr, revision, placement, drifts>>

Bump(w) ==
  /\ writer[w].pc = "bump"
  /\ revision' = revision + 1
  /\ writer' = [writer EXCEPT ![w].pc = "own"]
  /\ UNCHANGED <<q, level, mgr, levels, placement, installs, drifts>>

Own(w) ==
  /\ writer[w].pc = "own"
  /\ writer' = [writer EXCEPT ![w].pc = "sync", ![w].snapshot = levels,
                              ![w].label = revision, ![w].index = installs, ![w].todo = Node]
  /\ UNCHANGED <<q, level, mgr, levels, revision, placement, installs, drifts>>

RebuildBumpFirst(w) == Read(w) \/ InstallBumps(w) \/ BumpInstalls(w) \/ Own(w)
Rebuild(w) == Read(w) \/ Install(w) \/ Bump(w) \/ Own(w)

(* syncManagersFromHierarchy: the turn of one node.                        *)
SyncNode(w) ==
  LET n == First(writer[w].todo) IN
    /\ w # Starter /\ writer[w].pc = "sync" /\ writer[w].todo # {}
    /\ mgr' = [mgr EXCEPT ![n] = [SetPosition(@, level[n], writer[w].label) EXCEPT !.cache =
                 CacheOf(writer[w].snapshot, writer[w].index, n, level[n])]]
    /\ writer' = [writer EXCEPT ![w].todo = @ \ {n}]
    /\ UNCHANGED <<q, level, levels, revision, placement, installs, drifts>>

Release(w) ==
  /\ w # Starter /\ writer[w].pc = "sync" /\ writer[w].todo = {}
  /\ placement' = NoWriter
  /\ writer' = [writer EXCEPT ![w] = Idle]
  /\ UNCHANGED <<q, level, mgr, levels, revision, installs, drifts>>

(* rebuildHierarchy: it reads a node's level, and then writes it to the    *)
(* node's manager.                                                         *)
StarterReads ==
  LET n == First(writer[Starter].todo) IN
    /\ writer[Starter].pc = "sync" /\ writer[Starter].todo # {}
    /\ writer' = [writer EXCEPT ![Starter].pc = "set", ![Starter].todo = @ \ {n},
                                ![Starter].node = n, ![Starter].position = level[n]]
    /\ UNCHANGED <<q, level, mgr, levels, revision, placement, installs, drifts>>

StarterSets ==
  LET w == writer[Starter]
      n == w.node
  IN
  /\ w.pc = "set"
  /\ mgr' = [mgr EXCEPT ![n] = SetPosition(@, w.position, w.label)]
  /\ writer' = [writer EXCEPT ![Starter].pc = IF w.todo = {} THEN "idle" ELSE "sync"]
  /\ UNCHANGED <<q, level, levels, revision, placement, installs, drifts>>

(* updateQDrift, on the node's own goroutine.                              *)
Drift(n) ==
  /\ drifts < MaxDrifts /\ drifts' = drifts + 1
  /\ \E v \in Quality \ {q[n]} : q' = [q EXCEPT ![n] = v]
  /\ UNCHANGED <<level, mgr, levels, revision, placement, writer, installs>>

Next ==
  \/ \E w \in Cascader : Take(w) \/ SyncNode(w) \/ Release(w)
  \/ \E w \in Writer : Rebuild(w)
  \/ StarterReads
  \/ StarterSets
  \/ \E n \in Node : Drift(n)

Spec == Init /\ [][Next]_vars
-----------------------------------------------------------------------------
Level == 0 .. Cardinality(Node)
Table == [Node -> [q : Quality, level : Level]]
FewNodes == {S \in SUBSET Node : Cardinality(S) <= N}
Cache ==
  [same : FewNodes,
   upper : SUBSET [level : Level \ {0}, leader : Node, candidates : FewNodes],
   index : Nat]

(* With the capacity of a cache, SPEC_MVP_CONTROL_PLANE.md:134 and :141.   *)
TypeOK ==
  /\ q \in [Node -> Quality] /\ level \in [Node -> Level] /\ levels \in Table
  /\ mgr \in [Node -> [rev : Nat, level : Level, cache : Cache]]
  /\ revision \in Nat /\ installs \in Nat /\ drifts \in Nat
  /\ placement \in Cascader \cup {NoWriter}
  /\ writer \in [Writer ->
       [pc : {"idle", "read", "install", "bump", "own", "sync", "set"},
        read : Table, snapshot : Table, label : Nat, index : Nat,
        todo : SUBSET Node, node : Node, position : Level]]

(* Nothing is under way: every label is on what it stands for.             *)
Quiet == \A w \in Writer : writer[w].pc = "idle"

(* The revision is bumped after the levels are in place and outside the    *)
(* mutex, so a reader may find the levels newer than their label, and two  *)
(* readers different levels under one label.  They are never older than    *)
(* it: what a snapshot names r has seen at least r rebuilds.  That makes   *)
(* the label safe to compare: a manager that refuses r because it knows    *)
(* r + 1 refuses nothing newer (state.go:83-88).                           *)
LabelNeverAhead ==
  /\ revision <= installs
  /\ \A w \in Writer : writer[w].pc \in {"sync", "set"} => writer[w].label <= writer[w].index

(* What the policy compares (evaluateLeaderRotation): in the ranking it is *)
(* handed, a level's leader is by the sort the best of the level.  So the  *)
(* best of the others never beats it by a positive RotationMinDelta, and   *)
(* no tick proposes a rotation, whatever the live qualities do.            *)
Eligible(t, l) ==
  Members(t, l) # {} /\ \E best \in Members(t, l) \ {Leader(t, l)} :
    /\ \A o \in Members(t, l) \ {Leader(t, l), best} : Better(t, best, o)
    /\ t[best].q >= t[Leader(t, l)].q + MinDelta

NoRotationIsEligible == \A l \in Level : ~Eligible(levels, l)

(* The policy means the qualities of now (SPEC_LEADER_ROTATION_POLICY.md:22*)
(* "current leader quality"; :9 "when its quality degrades relative to     *)
(* peers"): a leader that has fallen behind the best of its level, once    *)
(* nothing else is under way, is seen to have.                             *)
EvaluatesCurrentQuality ==
  Quiet /\ revision > 0 =>
    \A p, best \in Node :
      Leads(levels, p) /\ levels[best].level = levels[p].level /\ q[best] >= q[p] + MinDelta
        => Eligible(levels, levels[p].level)

(* With nothing under way every manager is on the level the last cascade   *)
(* gave its node, although Start writes levels it read before, and the     *)
(* cascade's own write can be the one refused (node/manager.go:154).       *)
PositionsFollowTheTree == Quiet => \A n \in Node : mgr[n].level = level[n]

(* A manager's caches are those of the installed ranking, unless the       *)
(* ranking is Start's, which syncs no cache.  A cascade that was handed    *)
(* the other writer's ranking still caches what is installed.              *)
OnlyStartLeavesCachesStale ==
  Quiet => \A n \in Node :
    \/ mgr[n].cache = CacheOf(levels, installs, n, level[n])
    \/ mgr[n].cache.index < installs /\ mgr[n].rev > 0 /\ levels = writer[Starter].read

(* placementMu orders the syncs: no node's caches, and no node's revision, *)
(* go back to an earlier ranking (SPEC_LEADER_ROTATION_POLICY.md:127       *)
(* "revision must remain monotonic").                                      *)
CachesNeverGoBack ==
  [][\A n \in Node : mgr'[n].cache.index >= mgr[n].cache.index /\ mgr'[n].rev >= mgr[n].rev]_vars
=============================================================================
