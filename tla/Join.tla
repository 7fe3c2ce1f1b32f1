--------------------------------- MODULE Join ---------------------------------
(***************************************************************************)
(* How a node joins (dashboard/manager.go).                                *)
(*                                                                         *)
(* A node that udpLoop finds unconnected is offered a target, sends it a   *)
(* HELLO and is joining.  HELLOs are relayed through the tree until        *)
(* somebody accepts: that node's goroutine runs a placement cascade, which *)
(* places and connects every node of the mesh, reads what the origin got,  *)
(* connects it again and sends it a HELLO_ACK, which the origin applies.   *)
(* Each handler reads managers and maps, and writes them later, under no   *)
(* lock; cascades of other joins and of kills come between.  Frames are    *)
(* delayed and reordered; a lost frame is one that is never taken.         *)
(*                                                                         *)
(* A cascade with its sync is one step (Hierarchy and Attachment have its  *)
(* inside), and so are UDP probe and offer: an OFFER that comes late is    *)
(* dropped unless its node is still unconnected, and is then like a new    *)
(* one.  A rank in the tree stands for role, level and parent.  The reparent *)
(* cooldown is off; ActiveConnections and m.connected are in Attachment.   *)
(***************************************************************************)
EXTENDS PlacementTree, FiniteSets, Functions

CONSTANTS
  Node,        \* node ids
  NoNode,      \* Go's zero node id
  MaxHop,      \* WSHelloRelayPacket.MaxHop, 16 in the code
  MaxRevision, \* bound on the cascades, for TLC
  MaxHellos,   \* bound on the HELLOs, for TLC
  MaxKills     \* bound on the kills, for TLC

ASSUME NodeAssumption == NoNode \notin Node /\ IsFiniteSet(Node) /\ Node # {}
ASSUME JoinBoundAssumption ==
  MaxHop \in Nat /\ MaxRevision \in Nat /\ MaxHellos \in Nat /\ MaxKills \in 0 .. Cardinality(Node) - 1

VARIABLES
  alive,     \* the mesh's nodes
  revision,  \* hierarchy.State.revision
  rank,      \* the published tree, with who has died since; 0 for a node that is not in it
  pos,       \* per node the rank its Role and Level are from; 0 before the first
  mgr,       \* per node its NodeManager: connectionState, currentLeader, topologyRev
  frames,    \* HELLO, HELLO_RELAY and HELLO_ACK in flight
  handler,   \* per node what its goroutine is in the middle of
  scan,      \* the node udpLoop has read and found disconnected
  hellos,    \* HELLOs so far
  owed,      \* kills whose cascade has not started
  raced      \* history: nodes written from what was read before their last sync

joinVars == <<alive, revision, rank, pos, mgr, frames, handler, scan, hellos, owed, raced>>

Rankings(S) ==
  {[n \in Node |-> IF n \in S THEN r[n] ELSE 0] :
     r \in Bijection(S, 1 .. Cardinality(S))}

AtRank(i) == LET S == {m \in Node : rank[m] = i} IN IF i > 0 /\ S # {} THEN CHOOSE m \in S : TRUE ELSE NoNode

(* parentByNode, childLeadersByNode and followersByLeader, for a node that *)
(* is alive.  pruneTopologyState takes a dead node out of the lists of its *)
(* parent, and leaves its children a parent that is dead.                  *)
Parent(n)       == IF rank[n] > 1 THEN AtRank(ParentRank(rank[n])) ELSE NoNode
ChildLeaders(n) == {m \in alive : rank[m] > 1 /\ Parent(m) = n /\ LeadsAtRank(rank[m])}
Followers(n)    == {m \in alive : rank[m] > 1 /\ Parent(m) = n /\ ~LeadsAtRank(rank[m])}

Leads(n)  == pos[n] > 0 /\ LeadsAtRank(pos[n])
IsRoot(n) == pos[n] = 1

(* peer: whom it is about; seen: history, the revision when it read.       *)
Idle == [pc |-> "idle", peer |-> NoNode, leader |-> NoNode, rank |-> 0, rev |-> 0, seen |-> 0]

Frame(kind, origin, to, hop) ==
  [kind |-> kind, origin |-> origin, to |-> to, hop |-> hop,
   leader |-> NoNode, rank |-> 0, rev |-> 0]

(* The nodes are spawned and none has joined.                              *)
JoinInit ==
  /\ alive = Node /\ revision = 0
  /\ rank = [n \in Node |-> 0] /\ pos = [n \in Node |-> 0]
  /\ mgr = [n \in Node |-> [state |-> "solo", leader |-> NoNode, rev |-> 0]]
  /\ frames = {} /\ handler = [n \in Node |-> Idle]
  /\ scan = [node |-> NoNode, seen |-> 0]
  /\ hellos = 0 /\ owed = 0 /\ raced = {}
-----------------------------------------------------------------------------
(* Mutated forms of the definitions below, as a slip in the code could     *)
(* have them.  They show that each property can fail.                      *)

(* A joining node is not looked for.                                       *)
NeedsDiscoveryUnlessJoining(n) ==
  mgr[n].state \in {"solo", "disconnected"} \/ (~IsRoot(n) /\ mgr[n].leader = NoNode /\ mgr[n].state # "joining")

(* onWSHelloAck does not compare the revisions.                            *)
AckReadUnchecked(n) ==
  \E f \in frames :
    /\ f.kind = "ack" /\ f.to = n /\ n \in alive /\ handler[n] = Idle
    /\ frames' = frames \ {f}
    /\ handler' = [handler EXCEPT ![n] =
         [Idle EXCEPT !.pc = "apply", !.leader = f.leader, !.rank = f.rank,
                      !.rev = f.rev, !.seen = revision]]
    /\ UNCHANGED <<alive, revision, rank, pos, mgr, scan, hellos, owed, raced>>

(* KillNodes runs its cascade although it removed nothing.                 *)
KillCascadeUnowed ==
  /\ revision < MaxRevision
  /\ rank' \in Rankings(alive) /\ revision' = revision + 1
  /\ pos' = [n \in Node |-> IF n \in alive THEN rank'[n] ELSE pos[n]]
  /\ mgr' = mgr /\ raced' = {} /\ owed' = owed - 1
  /\ UNCHANGED <<alive, frames, handler, scan, hellos>>
-----------------------------------------------------------------------------
(* nodeNeedsDiscovery.                                                     *)
NeedsDiscovery(n) ==
  mgr[n].state \in {"solo", "disconnected"} \/ (~IsRoot(n) /\ mgr[n].leader = NoNode)

(* A node is written from what was read when the revision was seen.        *)
WriteNode(n, seen) == raced' = IF seen < revision THEN raced \cup {n} ELSE raced

(* udpLoop finds a node without a leader that is not Disconnected yet ...  *)
DetectRead(n) ==
  /\ scan.node = NoNode /\ n \in alive
  /\ ~IsRoot(n) /\ mgr[n].leader = NoNode /\ mgr[n].state # "disconnected"
  /\ scan' = [node |-> n, seen |-> revision]
  /\ UNCHANGED <<alive, revision, rank, pos, mgr, frames, handler, hellos, owed, raced>>

(* ... and marks it.                                                       *)
DetectWrite ==
  LET n == scan.node
  IN
  /\ n # NoNode
  /\ mgr' = [mgr EXCEPT ![n].state = "disconnected"]
  /\ WriteNode(n, scan.seen)
  /\ scan' = [node |-> NoNode, seen |-> 0]
  /\ UNCHANGED <<alive, revision, rank, pos, frames, handler, hellos, owed>>

(* startWSJoin: an OFFER of node t arrives at n ...                        *)
JoinRead(n) ==
  /\ n \in alive /\ handler[n] = Idle /\ hellos < MaxHellos
  /\ mgr[n].state \in {"solo", "disconnected"}
  /\ \E t \in alive \ {n} : handler' = [handler EXCEPT ![n] =
                              [Idle EXCEPT !.pc = "join", !.peer = t, !.seen = revision]]
  /\ hellos' = hellos + 1
  /\ UNCHANGED <<alive, revision, rank, pos, mgr, frames, scan, owed, raced>>

(* ... which sends it a HELLO, or is back where it was if that fails.      *)
JoinSend(n) ==
  LET h == handler[n]
  IN
  /\ h.pc = "join"
  /\ \/ /\ {n, h.peer} \subseteq alive
        /\ mgr' = [mgr EXCEPT ![n].state = "joining"]
        /\ frames' = frames \cup {Frame("hello", n, h.peer, 0)}
     \/ /\ mgr' = [mgr EXCEPT ![n].state = "solo"]
        /\ UNCHANGED frames
  /\ WriteNode(n, h.seen)
  /\ handler' = [handler EXCEPT ![n] = Idle]
  /\ UNCHANGED <<alive, revision, rank, pos, scan, hellos, owed>>
-----------------------------------------------------------------------------
(* chooseRelayTarget.  How the qualities compare at this moment is left    *)
(* open: they have drifted since the tree was built.                       *)
Up(n, origin)   == {Parent(n)} \ {NoNode, origin}
Down(n, origin) ==
  LET children == ChildLeaders(n) \ {origin}
  IN  IF Cardinality(Followers(n)) >= N
      THEN {c \in children : \A o \in children : rank[c] <= rank[o]} ELSE {}

MayRelay(n, origin)  == IF Leads(n) THEN Up(n, origin) \cup Down(n, origin) ELSE Up(n, origin)
MustRelay(n, origin) == ~Leads(n) /\ Up(n, origin) # {}

(* onWSHello and onWSHelloRelay.  A relay to a node that has died is lost. *)
TakeHello(n) ==
  \E f \in frames :
    /\ f.kind \in {"hello", "relay"} /\ f.to = n /\ n \in alive /\ handler[n] = Idle
    /\ \/ \E t \in MayRelay(n, f.origin) :
            /\ f.kind = "relay" => f.hop < MaxHop
            /\ frames' = (frames \ {f}) \cup
                 {Frame("relay", f.origin, t, IF f.kind = "hello" THEN 0 ELSE f.hop + 1)}
            /\ UNCHANGED handler
       \/ /\ ~MustRelay(n, f.origin) \/ (f.kind = "relay" /\ f.hop >= MaxHop)
          /\ frames' = frames \ {f}
          /\ handler' = [handler EXCEPT ![n] = [Idle EXCEPT !.pc = "place", !.peer = f.origin]]
    /\ UNCHANGED <<alive, revision, rank, pos, mgr, scan, hellos, owed, raced>>

(* A cascade: a new tree, told to every node, and a sync of every manager. *)
Cascade ==
  /\ revision < MaxRevision
  /\ rank' \in Rankings(alive) /\ revision' = revision + 1
  /\ pos' = [n \in Node |-> IF n \in alive THEN rank'[n] ELSE pos[n]]
  /\ mgr' = [n \in Node |->
       IF n \notin alive THEN mgr[n]
       ELSE [state |-> "connected", leader |-> Parent(n)', rev |-> revision']]
  /\ raced' = {}

(* finalizeJoinPlacement: its cascade.                                     *)
Place(n) ==
  /\ handler[n].pc = "place"
  /\ Cascade
  /\ handler' = [handler EXCEPT ![n].pc = "placed"]
  /\ UNCHANGED <<alive, frames, scan, hellos, owed>>

(* It goes on if origin and acceptor are still there, and reads what the   *)
(* origin has got by now, from this cascade or a later one.                *)
FinalRead(n) ==
  LET origin == handler[n].peer
  IN
  /\ handler[n].pc = "placed"
  /\ handler' = [handler EXCEPT ![n] =
       IF {n, origin} \subseteq alive
       THEN [pc |-> "final", peer |-> origin, rank |-> pos[origin], rev |-> mgr[origin].rev,
             leader |-> IF Parent(origin) \in alive THEN Parent(origin)
                        ELSE IF Leads(origin) /\ Parent(origin) = NoNode THEN origin
                        ELSE IF mgr[origin].leader # NoNode THEN mgr[origin].leader
                        ELSE origin,
             seen |-> revision]
       ELSE Idle]
  /\ UNCHANGED <<alive, revision, rank, pos, mgr, frames, scan, hellos, owed, raced>>

(* tryConnect, on the manager of the one that connects.                    *)
TryConnect(n, target) ==
  IF n # target /\ {n, target} \subseteq alive
  THEN [mgr EXCEPT ![n].leader = target, ![n].state = "connected"]
  ELSE mgr

(* ... connects it and sends the ack, from the leader if that is there.    *)
FinalSend(n) ==
  LET h == handler[n]
      sender == IF h.leader \in alive THEN h.leader ELSE n
  IN
  /\ h.pc = "final"
  /\ mgr' = TryConnect(h.peer, h.leader)
  /\ IF mgr' # mgr THEN WriteNode(h.peer, h.seen) ELSE UNCHANGED raced
  /\ frames' = IF {sender, h.peer} \subseteq alive /\ sender # h.peer
               THEN frames \cup {[Frame("ack", h.peer, h.peer, 0) EXCEPT
                                    !.leader = h.leader, !.rank = h.rank, !.rev = h.rev]}
               ELSE frames
  /\ handler' = [handler EXCEPT ![n] = Idle]
  /\ UNCHANGED <<alive, revision, rank, pos, scan, hellos, owed>>
-----------------------------------------------------------------------------
(* onWSHelloAck compares the ack's revision ...                            *)
AckRead(n) ==
  \E f \in frames :
    /\ f.kind = "ack" /\ f.to = n /\ n \in alive /\ handler[n] = Idle
    /\ frames' = frames \ {f}
    /\ handler' = IF f.rev < mgr[n].rev THEN handler
                  ELSE [handler EXCEPT ![n] =
                    [Idle EXCEPT !.pc = "apply", !.leader = f.leader, !.rank = f.rank,
                                 !.rev = f.rev, !.seen = revision]]
    /\ UNCHANGED <<alive, revision, rank, pos, mgr, scan, hellos, owed, raced>>

(* ... and then writes role, level, leader and state.                      *)
AckApply(n) ==
  LET h == handler[n]
      leader == IF h.leader = n THEN NoNode ELSE h.leader
  IN
  /\ h.pc = "apply"
  /\ pos' = [pos EXCEPT ![n] = h.rank]
  /\ mgr' = [mgr EXCEPT ![n] =
       [state |-> "connected", leader |-> leader, rev |-> IF h.rev < @.rev THEN @.rev ELSE h.rev]]
  /\ WriteNode(n, h.seen)
  /\ handler' = [handler EXCEPT ![n] = Idle]
  /\ UNCHANGED <<alive, revision, rank, frames, scan, hellos, owed>>
-----------------------------------------------------------------------------
(* KillNodes removes a node, prunes the maps and owes a cascade.           *)
Kill(n) ==
  /\ n \in alive /\ Cardinality(Node \ alive) < MaxKills /\ revision + owed < MaxRevision
  /\ alive' = alive \ {n} /\ owed' = owed + 1
  /\ UNCHANGED <<revision, rank, pos, mgr, frames, handler, scan, hellos, raced>>

KillCascade ==
  /\ owed > 0 /\ Cascade /\ owed' = owed - 1
  /\ UNCHANGED <<alive, frames, handler, scan, hellos>>

Step(n) ==
  Place(n) \/ FinalRead(n) \/ FinalSend(n) \/ AckApply(n) \/ JoinSend(n)

JoinNext ==
  \/ \E n \in Node : Step(n) \/ DetectRead(n) \/ JoinRead(n) \/ TakeHello(n) \/ AckRead(n) \/ Kill(n)
  \/ DetectWrite
  \/ KillCascade

JoinSpec == JoinInit /\ [][JoinNext]_joinVars
-----------------------------------------------------------------------------
SomeNode == Node \cup {NoNode}
Rank     == 0 .. Cardinality(Node)
Revision == 0 .. MaxRevision

JoinTypeOK ==
  /\ alive \subseteq Node /\ raced \subseteq Node /\ revision \in Revision
  /\ rank \in [Node -> Rank] /\ pos \in [Node -> Rank]
  /\ mgr \in [Node -> [state : {"solo", "joining", "connected", "disconnected"},
                       leader : SomeNode, rev : Revision]]
  /\ frames \subseteq [kind : {"hello", "relay", "ack"}, origin : Node, to : Node,
                       hop : 0 .. MaxHop, leader : SomeNode, rank : Rank, rev : Revision]
  /\ handler \in [Node -> [pc : {"idle", "join", "place", "placed", "final", "apply"},
                           peer : SomeNode, leader : SomeNode, rank : Rank,
                           rev : Revision, seen : Revision]]
  /\ scan \in [node : SomeNode, seen : Revision]
  /\ hellos \in 0 .. MaxHellos /\ owed \in 0 .. MaxKills

Joining(n) == n \in alive /\ mgr[n].state = "joining"

(* SPEC_MVP_CONTROL_PLANE.md:197 "completes or fails cleanly": wherever    *)
(* its HELLO was lost, a joining node is one that udpLoop will probe for   *)
(* again -- unless it set itself joining after a cascade had connected it  *)
(* (manager.go:1114-1118), for then it has a leader, or is the root.       *)
JoinsCanBeRetried == \A n \in Node : Joining(n) /\ n \notin raced => NeedsDiscovery(n)

(* What a node was told, and what its manager has, is the place that the   *)
(* latest tree gives it, whatever acks and reconnects of earlier joins are *)
(* still about -- unless a handler wrote what it had read before that tree *)
(* (manager.go:1266-1293, 1640-1672).                                      *)
OnlyRacedWritesMislead ==
  owed = 0 => \A n \in alive \ raced :
    rank[n] # 0 => pos[n] = rank[n] /\ mgr[n].leader = Parent(n) /\ mgr[n].rev = revision
=============================================================================
