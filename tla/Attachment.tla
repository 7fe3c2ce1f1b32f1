----------------------------- MODULE Attachment -----------------------------
(***************************************************************************)
(* How the nodes' managers learn of a new tree (dashboard/manager.go).     *)
(*                                                                         *)
(* A cascade holds placementMu while it publishes its tree, rebuilds the   *)
(* hierarchy, whose revision it bumps, and syncs the managers: it writes   *)
(* every node's leader, node after node (syncManagersFromHierarchy),       *)
(* replaces the map m.connected, and then tells every node it moved, with  *)
(* a TRANSITION_HINT over the simulated WS fabric and a tryConnect of its  *)
(* own.  Hints are delayed, reordered and lost.  A node's goroutine        *)
(* handles them under no lock, beside later cascades and beside kills.     *)
(*                                                                         *)
(* Module Cascade has how the tree is built from a ranking, Mutation the   *)
(* steps of a kill; here both are one step.  So is the turn of one node in *)
(* the sync.  ActiveConnections holds the leader whenever there is one,    *)
(* and is left out; so are the candidate caches.                           *)
(***************************************************************************)
EXTENDS PlacementTree, FiniteSets, Functions

CONSTANTS
  Node,       \* node ids
  NoNode,     \* Go's zero node id
  Cooldown,   \* is min_reparent_interval_ms positive?
  MaxRevision,\* bound on the revisions, for TLC
  MaxKills    \* bound on the kills, for TLC

ASSUME NodeAssumption == NoNode \notin Node /\ IsFiniteSet(Node) /\ Node # {}
ASSUME CooldownAssumption == Cooldown \in BOOLEAN
\* A cascade that finds no node left is in Mutation, and not here.
ASSUME BoundAssumption == MaxRevision \in Nat \ {0} /\ MaxKills \in 0 .. Cardinality(Node) - 1

VARIABLES
  alive,      \* mesh.nodes
  revision,   \* hierarchy.State.revision
  rank,       \* the ranking of the published tree; 0 for a node it has not
  mgr,        \* per node its NodeManager: currentLeader, connectionState, topologyRev
  connected,  \* m.connected; NoNode where it has no entry
  recent,     \* the nodes whose reparentAt is younger than the cooldown
  sync,       \* the sync of the cascade that holds placementMu
  owed,       \* kills whose cascade has not started
  hints,      \* TRANSITION_HINT frames in flight
  handler,    \* per node the hint its goroutine is in the middle of
  astray      \* history: the nodes that were led off the tree, see LedAstray

vars == <<alive, revision, rank, mgr, connected, recent, sync, owed, hints, handler, astray>>

Rankings(S) ==
  {[n \in Node |-> IF n \in S THEN r[n] ELSE 0] :
     r \in Bijection(S, 1 .. Cardinality(S))}

(* parentByNode of the tree a ranking gives.                               *)
Parent(r, n) ==
  LET parents == {p \in Node : r[n] > 1 /\ r[p] = ParentRank(r[n])}
  IN  IF parents = {} THEN NoNode ELSE CHOOSE p \in parents : TRUE

(* findNearestUpperLeader: the best node of the next level towards the     *)
(* root, or none for the root's own level.  That the qualities drift       *)
(* between the ranking and the hierarchy's own sort is left out.           *)
UpperLeader(r, n) ==
  LET upper == {m \in Node : r[m] # 0 /\ LevelAtRank(r[m]) = LevelAtRank(r[n]) - 1}
  IN  IF upper = {} THEN NoNode
      ELSE CHOOSE u \in upper : \A m \in upper : r[u] <= r[m]

NoRank == [n \in Node |-> 0]
NoMap  == [n \in Node |-> NoNode]

(* rank: the sync's own copy of the tree; todo: the nodes that wait for    *)
(* their turn; map: the next m.connected; moved: the nodes to be told, of  *)
(* which sent has got its hint and is to be connected.                     *)
NoSync ==
  [at |-> "idle", rank |-> NoRank, todo |-> {}, map |-> NoMap, moved |-> {}, sent |-> NoNode]

(* A hint names no revision: revision is history, the tree it is about.    *)
NoHint == [to |-> NoNode, target |-> NoNode, revision |-> 0, prev |-> NoNode]

(* A cascade has run to its end.                                           *)
Init ==
  /\ alive = Node /\ revision = 1
  /\ rank \in Rankings(Node)
  /\ mgr = [n \in Node |-> [leader |-> Parent(rank, n), state |-> "connected", rev |-> 1]]
  /\ connected = [n \in Node |-> Parent(rank, n)]
  /\ recent = {} /\ sync = NoSync /\ owed = 0 /\ hints = {}
  /\ handler = [n \in Node |-> NoHint]
  /\ astray = {}
-----------------------------------------------------------------------------
(* tryConnect, on what it reads and writes: the two maps and the manager   *)
(* of the node that connects.                                              *)
TryConnect(n, target, managers) ==
  /\ connected' = [connected EXCEPT ![n] = target]
  /\ recent' = IF connected[n] = target THEN recent ELSE recent \cup {n}
  /\ mgr' = IF {n, target} \subseteq alive
            THEN [managers EXCEPT ![n].leader = target, ![n].state = "connected"]
            ELSE managers

(* shouldThrottleReparent, for a node that had a leader and a connection.  *)
Throttled(n, prev, target) ==
  /\ Cooldown /\ n \in recent
  /\ prev # NoNode /\ target # NoNode /\ prev # target
-----------------------------------------------------------------------------
(* Mutated forms of the definitions below, as a slip in the code could     *)
(* have them.  They show that each property can fail.                      *)

(* KillNodes runs its cascade although it removed nothing.                 *)
KillCascadeUnowed ==
  /\ sync.at = "idle" /\ revision < MaxRevision
  /\ rank' \in Rankings(alive) /\ revision' = revision + 1
  /\ sync' = [NoSync EXCEPT !.at = "sync", !.rank = rank', !.todo = alive]
  /\ owed' = owed - 1
  /\ UNCHANGED <<alive, mgr, connected, recent, hints, handler, astray>>

(* The sync merges its map into m.connected.                               *)
SyncMapsMerged ==
  /\ sync.at = "sync" /\ sync.todo = {}
  /\ connected' = [n \in Node |-> IF sync.map[n] = NoNode THEN connected[n] ELSE sync.map[n]]
  /\ sync' = [sync EXCEPT !.at = "emit"]
  /\ UNCHANGED <<alive, revision, rank, mgr, recent, owed, hints, handler, astray>>

(* The sync leaves it to the hint to connect the node.                     *)
ConnectByHintOnly ==
  /\ sync.sent # NoNode
  /\ sync' = [sync EXCEPT !.moved = @ \ {sync.sent}, !.sent = NoNode]
  /\ UNCHANGED <<alive, revision, rank, mgr, connected, recent, owed, hints, handler, astray>>

(* A node without a new leader keeps the one it had.                       *)
SyncNodeKeepsLeader(n) ==
  LET p == Parent(sync.rank, n)
      target == IF p \in alive THEN p ELSE mgr[n].leader
  IN
  /\ sync.at = "sync" /\ n \in sync.todo
  /\ mgr' = [mgr EXCEPT ![n] = [leader |-> target, state |-> "connected", rev |-> revision]]
  /\ sync' = [sync EXCEPT !.todo = @ \ {n}, !.map[n] = target]
  /\ UNCHANGED <<alive, revision, rank, connected, recent, owed, hints, handler, astray>>
-----------------------------------------------------------------------------
(* The cascade of a join or of a kill: a new tree and a new revision.      *)
Cascade(owing) ==
  /\ sync.at = "idle"
  /\ revision < MaxRevision - owing
  /\ rank' \in Rankings(alive)
  /\ revision' = revision + 1
  /\ sync' = [NoSync EXCEPT !.at = "sync", !.rank = rank', !.todo = alive]
  /\ UNCHANGED <<alive, mgr, connected, recent, hints, handler, astray>>

JoinCascade == Cascade(owed) /\ UNCHANGED owed
KillCascade == owed > 0 /\ Cascade(0) /\ owed' = owed - 1

(* The leader the tree has for node n: its parent if that is alive, or     *)
(* else for a leader the nearest one further up.                           *)
Desired(n) ==
  LET r == sync.rank
      p == Parent(r, n)
  IN  IF p \in alive THEN p
      ELSE IF LeadsAtRank(r[n]) THEN UpperLeader(r, n) ELSE NoNode

(* Node n's turn.  It keeps its leader if it was moved a moment ago.       *)
SyncNode(n) ==
  LET kept   == Throttled(n, mgr[n].leader, Desired(n))
      target == IF kept THEN mgr[n].leader ELSE Desired(n)
      moved  == target \notin {NoNode, mgr[n].leader}
      state  == CASE moved -> "transitioning"
                  [] ~moved /\ (sync.rank[n] = 1 \/ target # NoNode) -> "connected"
                  [] OTHER -> "disconnected"
  IN
  /\ sync.at = "sync" /\ n \in sync.todo
  /\ mgr' = [mgr EXCEPT ![n] =
               [leader |-> target, state |-> state,
                rev |-> IF revision < @.rev THEN @.rev ELSE revision]]
  /\ sync' = [sync EXCEPT !.todo = @ \ {n}, !.map[n] = target,
                          !.moved = IF moved THEN @ \cup {n} ELSE @]
  /\ astray' = IF kept THEN astray \cup {n} ELSE astray \ {n}
  /\ UNCHANGED <<alive, revision, rank, connected, recent, owed, hints, handler>>

(* m.connected is replaced when every node has had its turn.               *)
SyncMaps ==
  /\ sync.at = "sync" /\ sync.todo = {}
  /\ connected' = sync.map
  /\ sync' = [sync EXCEPT !.at = "emit"]
  /\ UNCHANGED <<alive, revision, rank, mgr, recent, owed, hints, handler, astray>>

(* A node that was moved is sent a hint, unless it or its leader is gone.  *)
Emit(n) ==
  LET target == sync.map[n]
      there  == {n, target} \subseteq alive
  IN
  /\ sync.at = "emit" /\ sync.sent = NoNode /\ n \in sync.moved
  /\ hints' = IF there
              THEN hints \cup {[to |-> n, target |-> target, revision |-> revision]}
              ELSE hints
  /\ sync' = [sync EXCEPT !.sent = IF there THEN n ELSE @,
                          !.moved = IF there THEN @ ELSE @ \ {n}]
  /\ UNCHANGED <<alive, revision, rank, mgr, connected, recent, owed, handler, astray>>

(* ... and is connected.                                                   *)
Connect ==
  LET n == sync.sent IN
  /\ n # NoNode
  /\ TryConnect(n, sync.map[n], mgr)
  /\ sync' = [sync EXCEPT !.moved = @ \ {n}, !.sent = NoNode]
  /\ UNCHANGED <<alive, revision, rank, owed, hints, handler, astray>>

SyncEnd ==
  /\ sync.at = "emit" /\ sync.moved = {}
  /\ sync' = NoSync
  /\ UNCHANGED <<alive, revision, rank, mgr, connected, recent, owed, hints, handler, astray>>
-----------------------------------------------------------------------------
(* The node follows a hint of an older tree than the latest.               *)
LedAstray(n, rev) == astray' = IF rev < revision THEN astray \cup {n} ELSE astray

(* onWSTransitionHint, first part: the node looks its new leader up, reads *)
(* its manager and is transitioning -- unless it is there already, or the  *)
(* new leader is gone and the node is left without any.                    *)
HintRead(n) ==
  /\ n \in alive /\ handler[n] = NoHint
  /\ \E h \in hints :
       /\ h.to = n
       /\ hints' = hints \ {h}
       /\ IF mgr[n].leader = h.target
          THEN /\ mgr' = [mgr EXCEPT ![n].state = "connected"]
               /\ UNCHANGED <<handler, astray>>
          ELSE IF h.target \notin alive
          THEN /\ mgr' = [mgr EXCEPT ![n].leader = NoNode, ![n].state = "disconnected"]
               /\ LedAstray(n, h.revision) /\ UNCHANGED handler
          ELSE /\ UNCHANGED astray
               /\ mgr' = [mgr EXCEPT ![n].state = "transitioning"]
               /\ handler' = [handler EXCEPT ![n] =
                    [to |-> n, target |-> h.target, revision |-> h.revision,
                     prev |-> mgr[n].leader]]
  /\ UNCHANGED <<alive, revision, rank, connected, recent, sync, owed>>

(* ... and second part: it goes back to the leader it had if it was moved  *)
(* a moment ago, or moves to the new one.                                  *)
HintApply(n) ==
  LET h == handler[n] IN
  /\ h # NoHint
  /\ IF Throttled(n, h.prev, h.target)
     THEN /\ mgr' = [mgr EXCEPT ![n].leader = h.prev, ![n].state = "connected"]
          /\ UNCHANGED <<connected, recent>>
     ELSE TryConnect(n, h.target,
            [mgr EXCEPT ![n].leader = h.target, ![n].state = "connected"])
  /\ handler' = [handler EXCEPT ![n] = NoHint]
  /\ LedAstray(n, h.revision)
  /\ UNCHANGED <<alive, revision, rank, sync, owed, hints>>

(* A frame the receiver's full inbox drops, or whose receiver is gone.     *)
Lose(h) ==
  /\ h \in hints
  /\ hints' = hints \ {h}
  /\ UNCHANGED <<alive, revision, rank, mgr, connected, recent, sync, owed, handler, astray>>

(* KillNodes removes a node, prunes the maps and owes a cascade.           *)
Kill(n) ==
  /\ n \in alive /\ Cardinality(Node \ alive) < MaxKills
  /\ revision + owed < MaxRevision
  /\ alive' = alive \ {n}
  /\ rank' = [rank EXCEPT ![n] = 0]
  /\ connected' = [m \in Node |-> IF n \in {m, connected[m]} THEN NoNode ELSE connected[m]]
  /\ recent' = recent \ {n}
  /\ owed' = owed + 1
  /\ UNCHANGED <<revision, mgr, sync, hints, handler, astray>>

(* The cooldown of a node that was moved passes.                           *)
CooldownOver(n) ==
  /\ n \in recent
  /\ recent' = recent \ {n}
  /\ UNCHANGED <<alive, revision, rank, mgr, connected, sync, owed, hints, handler, astray>>
-----------------------------------------------------------------------------
Syncing == (\E n \in Node : SyncNode(n) \/ Emit(n)) \/ SyncMaps \/ Connect \/ SyncEnd

Next ==
  \/ JoinCascade \/ KillCascade \/ SyncMaps \/ Connect \/ SyncEnd
  \/ \E n \in Node : \/ SyncNode(n) \/ Emit(n) \/ HintRead(n) \/ HintApply(n)
                     \/ Kill(n) \/ CooldownOver(n)
  \/ \E h \in hints : Lose(h)

(* A cascade runs to its end, a kill gets to run its own (Go's mutexes     *)
(* starve nobody), and a node's goroutine finishes the handler it is in.   *)
(* Nothing makes a hint arrive.                                            *)
Spec ==
  /\ Init /\ [][Next]_vars
  /\ WF_vars(Syncing) /\ SF_vars(KillCascade)
  /\ \A n \in Node : WF_vars(HintApply(n))
-----------------------------------------------------------------------------
SomeNode == Node \cup {NoNode}
States   == {"connected", "disconnected", "transitioning"}
Hints    == [to : Node, target : Node, revision : 1 .. MaxRevision]

(* What the variables range over.                                          *)
TypeOK ==
  /\ alive \subseteq Node /\ recent \subseteq Node /\ astray \subseteq Node
  /\ revision \in 1 .. MaxRevision
  /\ rank \in [Node -> 0 .. Cardinality(Node)]
  /\ mgr \in [Node -> [leader : SomeNode, state : States, rev : 1 .. MaxRevision]]
  /\ connected \in [Node -> SomeNode]
  /\ sync \in [at : {"idle", "sync", "emit"}, rank : [Node -> 0 .. Cardinality(Node)],
              todo : SUBSET Node, map : [Node -> SomeNode],
              moved : SUBSET Node, sent : SomeNode]
  /\ owed \in 0 .. MaxKills
  /\ hints \subseteq Hints
  /\ handler \in [Node -> [to : SomeNode, target : SomeNode,
                          revision : 0 .. MaxRevision, prev : SomeNode]]

(* No cascade runs or is owed, and no node is in the middle of a hint.     *)
Quiet == sync.at = "idle" /\ owed = 0 /\ \A n \in Node : handler[n] = NoHint

(* Once things are quiet, a node's manager and m.connected both name the   *)
(* parent the latest tree gave it, unless it followed a hint older than    *)
(* that tree, or a cascade kept it where it was because it had just moved. *)
(* Whatever the order of turns, hints, kills and the swap of m.connected,  *)
(* nothing else takes a node off the tree.                                 *)
OnlyLateHintsLeadAstray ==
  Quiet => \A n \in alive \ astray :
    /\ mgr[n].leader = Parent(rank, n) /\ connected[n] = Parent(rank, n)
    /\ mgr[n].rev = revision /\ mgr[n].state = "connected"

(* SPEC_MVP_CONTROL_PLANE.md 9, "completes or fails cleanly": once things  *)
(* are quiet no node is left in transition, were its hint lost, late,      *)
(* throttled, or for a leader that died meanwhile.                         *)
NoneLeftTransitioning == Quiet => \A n \in alive : mgr[n].state # "transitioning"

(* A node whose leader was killed ends up without one, or with one that    *)
(* lives, or was led astray.                                               *)
Orphan(n) == n \in alive \ astray /\ mgr[n].leader \notin alive \cup {NoNode}
OrphansFindALeader == \A n \in Node : Orphan(n) ~> ~Orphan(n)

(* Until then somebody is still to look at it: a kill owes a cascade, or   *)
(* the one that runs has not come to the node's turn.                      *)
OrphansAreLookedAt == \A n \in Node : Orphan(n) => owed > 0 \/ n \in sync.todo
=============================================================================
